---- MODULE Spec2Model ----
(***************************************************************************)
(* Model of the book ingestion pipeline of src/src/lib/bookParser.ts       *)
(* (parseTxtFile, parsePdfFile, parseEpubFile, parseBookFile) and of its   *)
(* caller BookUpload.processFile (src/unnamed/part_015).                   *)
(*                                                                         *)
(* A JavaScript string is a sequence of characters; a character is a       *)
(* one-element TLA+ string, and a character outside ASCII is written by    *)
(* its code point ("U+7B2C").  A JavaScript object is a record; a property *)
(* that is absent or undefined is a field the record does not have.        *)
(***************************************************************************)
EXTENDS Integers, Sequences, FiniteSets, TLC

(***************************************************************************)
(* Bounds of the model.                                                    *)
(***************************************************************************)
MaxLines == 3

MaxPages == 3

MaxSpine == 2

(***************************************************************************)
(* String primitives of JavaScript used by the parser.                     *)
(***************************************************************************)
Rep(c, n) == [k \in 1..n |-> c]

Whitespace == {" ", "\t", "\r", "\n"}

Upper == <<"A", "B", "C", "D", "E", "F", "G", "H", "I", "J", "K", "L", "M", "N", "O", "P", "Q", "R", "S", "T", "U", "V", "W", "X", "Y", "Z">>

LowerLetters == <<"a", "b", "c", "d", "e", "f", "g", "h", "i", "j", "k", "l", "m", "n", "o", "p", "q", "r", "s", "t", "u", "v", "w", "x", "y", "z">>

\* String.prototype.toLowerCase, character by character
ToLowerChar(c) ==
  IF \E k \in 1..26 : Upper[k] = c
  THEN LowerLetters[CHOOSE k \in 1..26 : Upper[k] = c]
  ELSE c

ToLowerCase(s) == [k \in 1..Len(s) |-> ToLowerChar(s[k])]

StartsWith(s, p) == Len(s) >= Len(p) /\ SubSeq(s, 1, Len(p)) = p

EndsWith(s, p) == Len(s) >= Len(p) /\ SubSeq(s, Len(s) - Len(p) + 1, Len(s)) = p

\* String.prototype.substring(0, n)
Substring0(s, n) == SubSeq(s, 1, IF Len(s) < n THEN Len(s) ELSE n)

\* String.prototype.trim
Trim(s) ==
  LET kept == {k \in 1..Len(s) : s[k] \notin Whitespace}
  IN  IF kept = {} THEN <<>>
      ELSE SubSeq(s, CHOOSE k \in kept : \A m \in kept : k <= m,
                     CHOOSE k \in kept : \A m \in kept : m <= k)

\* String.prototype.split(sep) for a one-character separator: the pieces
\* between the separators, empty pieces included
Split(s, sep) ==
  LET at == {k \in 1..Len(s) : s[k] = sep}
      \* the position of the j-th separator; 0 and Len(s) + 1 bracket the string
      Pos(j) == IF j = 0 THEN 0
                ELSE IF j > Cardinality(at) THEN Len(s) + 1
                ELSE CHOOSE k \in at : Cardinality({m \in at : m <= k}) = j
  IN  [j \in 1..(Cardinality(at) + 1) |-> SubSeq(s, Pos(j - 1) + 1, Pos(j) - 1)]

\* s.replace(/X+/g, r) for a set X of characters: every run of characters of
\* X becomes the one character r
CollapseRuns(s, X, r) ==
  LET withPrev == [k \in 1..Len(s) |-> <<s[k], k > 1 /\ s[k - 1] \in X>>]
      RunStartOrOther(c) == c[1] \notin X \/ ~c[2]
      kept == SelectSeq(withPrev, RunStartOrOther)
  IN  [k \in 1..Len(kept) |-> IF kept[k][1] \in X THEN r ELSE kept[k][1]]

\* String.prototype.lastIndexOf(c), 0-based, -1 when c does not occur
LastIndexOf(s, c) ==
  LET at == {k \in 1..Len(s) : s[k] = c}
  IN  IF at = {} THEN -1 ELSE (CHOOSE k \in at : \A m \in at : m <= k) - 1

\* Array.prototype.join
RECURSIVE Join(_, _)
Join(parts, sep) ==
  IF parts = <<>> THEN <<>>
  ELSE IF Len(parts) = 1 THEN parts[1]
  ELSE parts[1] \o sep \o Join(Tail(parts), sep)

\* Array.prototype.pop of a non-empty array: its last element
Last(seq) == seq[Len(seq)]

Digits == <<"0", "1", "2", "3", "4", "5", "6", "7", "8", "9">>

\* template literal `${n}` of a non-negative integer
RECURSIVE NumToString(_)
NumToString(n) ==
  IF n < 10 THEN <<Digits[n + 1]>> ELSE NumToString(n \div 10) \o <<Digits[(n % 10) + 1]>>

\* Math.ceil(n / d) for n >= 0, d > 0
Ceil(n, d) == (n + d - 1) \div d

RECURSIVE SumLen(_)
SumLen(chs) == IF chs = <<>> THEN 0 ELSE Len(Head(chs).paragraphs) + SumLen(Tail(chs))

(***************************************************************************)
(* The shared heuristics: /^(CHAPTER|Chapter|U+7B2C.*U+7AE0)/i and the     *)
(* section-heading test.                                                   *)
(***************************************************************************)
ChapterWord == <<"c", "h", "a", "p", "t", "e", "r">>

IsChapterTitle(line) ==
  \/ StartsWith(ToLowerCase(line), ChapterWord)
  \/ /\ line # <<>>
     /\ line[1] = "U+7B2C"
     /\ \E k \in 2..Len(line) : line[k] = "U+7AE0" /\ \A j \in 2..(k - 1) : line[j] # "\n"

SentenceEnd == {".", "!", "?"}

\* the heading test with the bounds 10 and 100 included
IsHeadingInclusive(line) ==
  Len(line) <= 100 /\ ~(line # <<>> /\ Last(line) \in SentenceEnd) /\ Len(line) >= 10

\* line.length < 100 && !line.match(/[.!?]$/) && line.length > 10
IsHeading(line) == Len(line) < 100 /\ ~(line # <<>> /\ Last(line) \in SentenceEnd) /\ Len(line) > 10

(***************************************************************************)
(* detectLanguage                                                          *)
(***************************************************************************)
\* the characters of the range \u4e00-\u9fa5 that occur in the inputs
CJKIdeographs == {"U+7B2C", "U+7AE0", "U+4E00", "U+4E66"}

CountIn(s, set) == Cardinality({k \in 1..Len(s) : s[k] \in set})

DetectLanguage(text) ==
  LET chineseChars == CountIn(text, CJKIdeographs)
      totalChars == Len(text) - CountIn(text, Whitespace)
  IN  IF chineseChars > 0 /\ 10 * chineseChars > 3 * totalChars
      THEN <<"C", "h", "i", "n", "e", "s", "e">> ELSE <<"E", "n", "g", "l", "i", "s", "h">>

(***************************************************************************)
(* Book metadata shared by the extractors.                                 *)
(***************************************************************************)
\* file.name.replace(/\.[^/.]+$/, ''): drop a final ".ext" with ext non-empty
\* and free of '/' and '.'
StripExtension(name) ==
  LET dots == {k \in 1..Len(name) : name[k] = "."}
      Max(S) == CHOOSE m \in S : \A n \in S : n <= m
  IN  IF dots = {} THEN name
      ELSE LET d == Max(dots)
           IN  IF d < Len(name) /\ \A k \in (d + 1)..Len(name) : name[k] # "/"
               THEN SubSeq(name, 1, d - 1) ELSE name

\* the values Date.now() takes when a Book is built
Clock == {1, 2}

\* id: `uploaded-${Date.now()}`
WithId(book, now) == [id |-> <<"u", "p", "l", "o", "a", "d", "e", "d", "-">> \o NumToString(now)] @@ book

PlaceholderCover(title) == [kind |-> "placeholder", text |-> Substring0(title, 30)]

Ellipsis == <<".", ".", ".">>

NewChapter(n, title) == [id |-> <<"c", "h">> \o NumToString(n), title |-> title, paragraphs |-> <<>>]

ChapterN(n) == <<"C", "h", "a", "p", "t", "e", "r", " ">> \o NumToString(n)

ParagraphIdOf(n) == <<"p">> \o NumToString(n)

(***************************************************************************)
(* parseEpubFile: the archive, the package document and the DOM            *)
(***************************************************************************)
\* An archive is the sequence of its entries, [name, data], in archive order.
\* zip.file(path) finds the entry of exactly that name.
HasEntry(zip, path) == \E k \in 1..Len(zip) : zip[k].name = path

EntryData(zip, path) == zip[CHOOSE k \in 1..Len(zip) : zip[k].name = path].data

\* entry.async('text') of an entry that can be read: '' for an empty one
Readable(zip, path) == HasEntry(zip, path) /\ EntryData(zip, path).kind \notin {"corrupt", "empty"}

\* getAttribute(a) is a non-empty string
HasAttr(node, a) == a \in DOMAIN node /\ node[a] # <<>>

\* String.prototype.includes
Includes(s, sub) == \E k \in 1..(Len(s) - Len(sub) + 1) : SubSeq(s, k, k + Len(sub) - 1) = sub

\* cleanMetadata: tags /<[^>]*>/ become a space, runs of white space become
\* one space, and the result is trimmed (the inputs hold no HTML entities)
CleanMetadata(text) ==
  LET InTag(k) ==
        \E a \in 1..k :
          /\ text[a] = "<"
          /\ \A m \in a..(k - 1) : text[m] # ">"
          /\ \E b \in k..Len(text) : text[b] = ">"
      noTags == IF \E k \in 1..Len(text) : text[k] = "<"
                THEN [k \in 1..Len(text) |-> IF InTag(k) THEN " " ELSE text[k]]
                ELSE text
  IN  Trim(CollapseRuns(noTags, Whitespace, " "))

\* rootfilePath.substring(0, rootfilePath.lastIndexOf('/') + 1)
BasePathOf(rootfilePath) == SubSeq(rootfilePath, 1, LastIndexOf(rootfilePath, "/") + 1)

\* containerDoc.querySelector('rootfile')?.getAttribute('full-path'), <<>> when there is none
RootfilePath(zip) ==
  LET data == EntryData(zip, <<"M", "E", "T", "A", "-", "I", "N", "F", "/", "c", "o", "n", "t", "a", "i", "n", "e", "r", ".", "x", "m", "l">>)
  IN  IF data.kind = "container" /\ HasAttr(data, "rootfile") THEN data.rootfile ELSE <<>>

EmptyOpf == [kind |-> "opf", manifest |-> <<>>, spine |-> <<>>]

\* the package document; one that is no package document has no manifest and no spine
OpfDoc(zip) ==
  LET data == EntryData(zip, RootfilePath(zip))
  IN  IF data.kind = "opf" THEN data ELSE EmptyOpf

\* lines 331-343: manifestItems, the Map from id to href; a later item of the
\* same id replaces an earlier one
ManifestHas(opf, id) ==
  \E k \in 1..Len(opf.manifest) :
    HasAttr(opf.manifest[k], "id") /\ HasAttr(opf.manifest[k], "href") /\ opf.manifest[k].id = id

ManifestGet(opf, id) ==
  LET at == {k \in 1..Len(opf.manifest) :
               HasAttr(opf.manifest[k], "id") /\ HasAttr(opf.manifest[k], "href")
                 /\ opf.manifest[k].id = id}
  IN  opf.manifest[CHOOSE k \in at : \A m \in at : m <= k].href

\* lines 345-349: the test of the manifest loop for a cover image
IsCoverItem(item) ==
  \/ "properties" \in DOMAIN item /\ item.properties = <<"c", "o", "v", "e", "r", "-", "i", "m", "a", "g", "e">>
  \/ Includes(ToLowerCase(item.id), <<"c", "o", "v", "e", "r">>)
  \/ /\ "mediaType" \in DOMAIN item
     /\ StartsWith(item.mediaType, <<"i", "m", "a", "g", "e", "/">>)
     /\ Includes(ToLowerCase(item.href), <<"c", "o", "v", "e", "r">>)

\* lines 334-364: coverImagePath after the manifest loop and the look at
\* <meta name="cover">; <<>> when no cover is found
CoverImagePath(opf) ==
  LET hits == {k \in 1..Len(opf.manifest) :
                 /\ HasAttr(opf.manifest[k], "id") /\ HasAttr(opf.manifest[k], "href")
                 /\ IsCoverItem(opf.manifest[k])}
  IN  IF hits # {}
      THEN opf.manifest[CHOOSE k \in hits : \A m \in hits : m <= k].href
      ELSE IF HasAttr(opf, "coverMeta") /\ ManifestHas(opf, opf.coverMeta)
      THEN ManifestGet(opf, opf.coverMeta)
      ELSE <<>>

\* An element is [tag, text, kids] with the attributes it has (src, alt,
\* class); text is the text before its children.  A document is its <title>,
\* if any, and the children of its body.
RECURSIVE TextContentAll(_)
TextContentAll(es) ==
  IF es = <<>> THEN <<>>
  ELSE Head(es).text \o TextContentAll(Head(es).kids) \o TextContentAll(Tail(es))

\* element.textContent
TextContent(e) == e.text \o TextContentAll(e.kids)

\* the elements of a forest in document order
RECURSIVE Preorder(_)
Preorder(es) ==
  IF es = <<>> THEN <<>>
  ELSE <<Head(es)>> \o Preorder(Head(es).kids) \o Preorder(Tail(es))

Matches(e, selector) ==
  IF selector = ".chapter-title"
  THEN "class" \in DOMAIN e /\ e.class = <<"c", "h", "a", "p", "t", "e", "r", "-", "t", "i", "t", "l", "e">>
  ELSE e.tag = selector

\* the place in document order of querySelector(selector), 0 when there is none
QuerySelector(es, selector) ==
  LET pre == Preorder(es)
      at == {k \in 1..Len(pre) : Matches(pre[k], selector)}
  IN  IF at = {} THEN 0 ELSE CHOOSE k \in at : \A m \in at : k <= m

\* element.remove() of the n-th element in document order
RECURSIVE RemoveNth(_, _)
RemoveNth(es, n) ==
  IF es = <<>> THEN <<>>
  ELSE IF n = 1 THEN Tail(es)
  ELSE LET h == Head(es)
           under == Len(Preorder(h.kids))
       IN  IF n - 1 <= under
           THEN <<[h EXCEPT !.kids = RemoveNth(h.kids, n - 1)]>> \o Tail(es)
           ELSE <<h>> \o RemoveNth(Tail(es), n - 1 - under)

(***************************************************************************)
(* parseEpubFile: the chapter title (lines 408-428)                        *)
(***************************************************************************)
TitleSelectors == <<"h1", "h2", "h3", ".chapter-title", "title">>

\* el.textContent of the element a selector finds, <<>> when it finds none
TitleElementText(doc, selector) ==
  IF selector = "title"
  THEN IF "title" \in DOMAIN doc THEN doc.title ELSE <<>>
  ELSE IF QuerySelector(doc.body, selector) = 0 THEN <<>>
  ELSE TextContent(Preorder(doc.body)[QuerySelector(doc.body, selector)])

TitleAccepted(doc, selector) ==
  LET text == CleanMetadata(TitleElementText(doc, selector))
  IN  TitleElementText(doc, selector) # <<>> /\ text # <<>> /\ Len(text) < 200

\* the place in titleElements of the element that gives the title, 0 when none does
TitleChoice(doc) ==
  LET ok == {j \in 1..Len(TitleSelectors) : TitleAccepted(doc, TitleSelectors[j])}
  IN  IF ok = {} THEN 0 ELSE CHOOSE j \in ok : \A m \in ok : j <= m

ChapterTitle(doc) ==
  IF TitleChoice(doc) = 0 THEN <<>>
  ELSE CleanMetadata(TitleElementText(doc, TitleSelectors[TitleChoice(doc)]))

\* the document after el.remove() of the title element
WithoutTitleElement(doc) ==
  LET j == TitleChoice(doc)
  IN  IF j = 0 THEN doc
      ELSE IF TitleSelectors[j] = "title" THEN [body |-> doc.body]
      ELSE [doc EXCEPT !.body = RemoveNth(@, QuerySelector(@, TitleSelectors[j]))]

(***************************************************************************)
(* parseEpubFile: processImage and resolvePath (lines 433-540)             *)
(***************************************************************************)
NonEmpty(s) == s # <<>>

RECURSIVE ResolveParts(_, _)
ResolveParts(baseParts, relativeParts) ==
  IF relativeParts = <<>> THEN baseParts
  ELSE LET part == Head(relativeParts)
       IN  IF part = <<".", ".">>
           THEN ResolveParts(IF baseParts = <<>> THEN <<>>
                             ELSE SubSeq(baseParts, 1, Len(baseParts) - 1),
                             Tail(relativeParts))
           ELSE IF part # <<".">>
           THEN ResolveParts(Append(baseParts, part), Tail(relativeParts))
           ELSE ResolveParts(baseParts, Tail(relativeParts))

Slash == <<"/">>

ResolvePath(base, relative) ==
  Join(ResolveParts(SelectSeq(Split(base, "/"), NonEmpty),
                    SelectSeq(Split(relative, "/"), NonEmpty)), Slash)

\* basePath.split('/').slice(0, -1).join('/')
CurrentDir(basePath) ==
  LET parts == Split(basePath, "/") IN Join(SubSeq(parts, 1, Len(parts) - 1), Slash)

PrefixesToTry == <<<<"O", "E", "B", "P", "S", "/">>, <<"O", "P", "S", "/">>, <<"E", "P", "U", "B", "/">>, <<"c", "o", "n", "t", "e", "n", "t", "/">>>>

\* imgSrc.replace(/^\.\.\//, '')
WithoutLeadingParent(src) == IF StartsWith(src, <<".", ".", "/">>) THEN SubSeq(src, 4, Len(src)) ELSE src

\* the names of the archive entries that end with the file name, in archive order
EntriesEndingWith(zip, filename) ==
  LET Ends(entry) == EndsWith(entry.name, filename)
      found == SelectSeq(zip, Ends)
  IN  [k \in 1..Len(found) |-> found[k].name]

RECURSIVE PrefixedPaths(_, _)
PrefixedPaths(prefixes, src) ==
  IF prefixes = <<>> THEN <<>>
  ELSE <<Head(prefixes) \o src, Head(prefixes) \o WithoutLeadingParent(src)>>
         \o PrefixedPaths(Tail(prefixes), src)

\* lines 446-489: possiblePaths
PossiblePaths(zip, basePath, imgSrc) ==
  <<imgSrc>>
    \o (IF StartsWith(imgSrc, <<".", ".", "/">>)
        THEN <<ResolvePath(CurrentDir(basePath), imgSrc)>> ELSE <<>>)
    \o (IF ~StartsWith(imgSrc, <<"h", "t", "t", "p">>) /\ ~StartsWith(imgSrc, <<"/">>)
        THEN <<basePath \o imgSrc, imgSrc>>
               \o (IF Last(Split(imgSrc, "/")) # <<>>
                   THEN EntriesEndingWith(zip, Last(Split(imgSrc, "/"))) ELSE <<>>)
        ELSE <<>>)
    \o (IF StartsWith(imgSrc, <<"/">>) THEN <<Tail(imgSrc)>> ELSE <<>>)
    \o PrefixedPaths(PrefixesToTry, imgSrc)

\* path.replace(/\/+/g, '/')
CleanPath(path) == CollapseRuns(path, {"/"}, "/")

\* lines 494-518: the place in possiblePaths of the first path the archive
\* holds, 0 when it holds none
FirstHit(zip, paths) ==
  LET hits == {k \in 1..Len(paths) : HasEntry(zip, CleanPath(paths[k]))}
  IN  IF hits = {} THEN 0 ELSE CHOOSE k \in hits : \A m \in hits : k <= m

\* an image paragraph that is flagged as a heading as well
ImageParagraphAsHeading(alt, path) ==
  [ text |-> IF alt # <<>> THEN alt ELSE <<"I", "m", "a", "g", "e">>,
    isImage |-> TRUE,
    isHeading |-> TRUE,
    headingLevel |-> 2,
    imageUrl |-> [kind |-> "data", path |-> path],
    imageAlt |-> alt ]

\* lines 508-514: the paragraph of an image, before its id is given
ImageParagraph(alt, path) ==
  [ text |-> IF alt # <<>> THEN alt ELSE <<"I", "m", "a", "g", "e">>,
    isImage |-> TRUE,
    imageUrl |-> [kind |-> "data", path |-> path],
    imageAlt |-> alt ]

\* processImage: the paragraphs (none or one) an <img> adds.  An entry whose
\* bytes cannot be read rejects; the catch of line 521 logs it.
ProcessImage(zip, basePath, img) ==
  IF ~HasAttr(img, "src") THEN <<>>
  ELSE LET paths == PossiblePaths(zip, basePath, img.src)
           hit == FirstHit(zip, paths)
           alt == IF "alt" \in DOMAIN img THEN img.alt ELSE <<>>
       IN  IF hit = 0 THEN <<>>
           ELSE IF EntryData(zip, CleanPath(paths[hit])).kind = "corrupt" THEN <<>>
           ELSE <<ImageParagraph(alt, CleanPath(paths[hit]))>>

\* lines 545-550: processImage of every <img> of the document, in document order
RECURSIVE ProcessImages(_, _, _)
ProcessImages(zip, basePath, imgs) ==
  IF imgs = <<>> THEN <<>>
  ELSE ProcessImage(zip, basePath, Head(imgs)) \o ProcessImages(zip, basePath, Tail(imgs))

IsImg(e) == e.tag = "img"

(***************************************************************************)
(* parseEpubFile: processElement (lines 552-629)                           *)
(***************************************************************************)
HeadingTags == {"h1", "h2", "h3", "h4", "h5", "h6"}

ContainerTags ==
  {"div", "section", "article", "main", "body", "figure", "aside", "header", "footer", "nav"}

BlockTags == {"p", "div", "section"} \cup HeadingTags

\* parseInt(tagName.charAt(1))
HeadingLevelOf(tag) ==
  CHOOSE n \in 1..6 : tag = <<"h1", "h2", "h3", "h4", "h5", "h6">>[n]

\* element.querySelector('p, div, section, h1, h2, h3, h4, h5, h6')
HasBlockChildren(e) == \E k \in 1..Len(Preorder(e.kids)) : Preorder(e.kids)[k].tag \in BlockTags

\* the test with the characters that end a sentence only
LooksLikeHeadingBySentenceEnd(text) == Len(text) < 100 /\ Last(text) \notin SentenceEnd

\* text.length < 100 && !text.match(/[.!?,;]$/)
LooksLikeHeading(text) == Len(text) < 100 /\ Last(text) \notin {".", "!", "?", ",", ";"}

RECURSIVE ProcessElements(_, _)
\* the paragraphs, before their ids are given, that processElement pushes for
\* each element of es in turn
ProcessElements(es, chapterTitle) ==
  IF es = <<>> THEN <<>>
  ELSE
    LET e == Head(es)
        text == Trim(TextContent(e))
        own ==
          IF e.tag = "img" THEN <<>>
          ELSE IF e.tag \in HeadingTags
          THEN IF text # <<>> /\ text # chapterTitle
               THEN <<[text |-> text, isHeading |-> TRUE, headingLevel |-> HeadingLevelOf(e.tag)]>>
               ELSE <<>>
          ELSE IF e.tag = "p"
          THEN IF Len(text) >= 20 THEN <<[text |-> text]>> ELSE <<>>
          ELSE IF e.tag \in ContainerTags
          THEN IF HasBlockChildren(e) THEN ProcessElements(e.kids, chapterTitle)
               ELSE IF Len(text) >= 20
               THEN IF LooksLikeHeading(text)
                    THEN <<[text |-> text, isHeading |-> TRUE, headingLevel |-> 4]>>
                    ELSE <<[text |-> text, isHeading |-> FALSE]>>
               ELSE <<>>
          ELSE ProcessElements(e.kids, chapterTitle)
    IN  own \o ProcessElements(Tail(es), chapterTitle)

(***************************************************************************)
(* parseEpubFile: the plain-text fallback (lines 631-665)                  *)
(***************************************************************************)
RECURSIVE VisibleText(_)
\* the text of a forest without its script and style elements
VisibleText(es) ==
  IF es = <<>> THEN <<>>
  ELSE (IF Head(es).tag \in {"script", "style"} THEN <<>>
        ELSE Head(es).text \o VisibleText(Head(es).kids)) \o VisibleText(Tail(es))

\* htmlToText(htmlContent), of the content as read: the title element is part of it
HtmlToText(doc) ==
  Trim(CollapseRuns((IF "title" \in DOMAIN doc THEN doc.title ELSE <<>>) \o VisibleText(doc.body),
                    Whitespace, " "))

\* chapterText.match(/[^.!?]+[.!?]+/g) || [chapterText]
Sentences(t) ==
  LET ends == {k \in 1..Len(t) :
                 /\ t[k] \in SentenceEnd
                 /\ k = Len(t) \/ t[k + 1] \notin SentenceEnd
                 /\ \E m \in 1..(k - 1) : t[m] \notin SentenceEnd}
      End(j) == CHOOSE k \in ends : Cardinality({m \in ends : m <= k}) = j
      first == CHOOSE k \in 1..Len(t) : t[k] \notin SentenceEnd /\ \A m \in 1..(k - 1) : t[m] \in SentenceEnd
      Start(j) == IF j = 1 THEN first ELSE End(j - 1) + 1
  IN  IF ends = {} THEN <<t>>
      ELSE [j \in 1..Cardinality(ends) |-> SubSeq(t, Start(j), End(j))]

RECURSIVE Accumulate(_, _)
\* lines 643-665: the paragraphs gathered from the sentences
Accumulate(sentences, currentParagraph) ==
  IF sentences = <<>>
  THEN IF Len(Trim(currentParagraph)) > 30 THEN <<[text |-> Trim(currentParagraph)]>> ELSE <<>>
  ELSE LET cur == currentParagraph \o Head(sentences)
       IN  IF Len(cur) > 150
           THEN (IF Len(Trim(cur)) > 30 THEN <<[text |-> Trim(cur)]>> ELSE <<>>)
                  \o Accumulate(Tail(sentences), <<>>)
           ELSE Accumulate(Tail(sentences), cur)

(***************************************************************************)
(* parseEpubFile: one spine item (lines 374-686)                           *)
(***************************************************************************)
\* the paragraphs with their ids: `p${paragraphId++}` in the order pushed
Numbered(protos, firstId) ==
  [k \in 1..Len(protos) |-> [id |-> ParagraphIdOf(firstId + k - 1)] @@ protos[k]]

RECURSIVE JoinTexts(_)
\* paragraphs.map(p => p.text).join(' ')
JoinTexts(ps) ==
  IF ps = <<>> THEN <<>>
  ELSE IF Len(ps) = 1 THEN ps[1].text
  ELSE ps[1].text \o <<" ">> \o JoinTexts(Tail(ps))

\* why a spine item is left before its document is parsed, "" when it is not
SpineSkip(zip, opf, basePath, itemref) ==
  IF ~HasAttr(itemref, "idref") THEN "no idref"
  ELSE IF ~ManifestHas(opf, itemref.idref) THEN "href not found"
  ELSE LET contentPath == basePath \o ManifestGet(opf, itemref.idref)
       IN  IF ~HasEntry(zip, contentPath) THEN "file not found"
           ELSE IF EntryData(zip, contentPath).kind = "corrupt" THEN "error"
           ELSE IF EntryData(zip, contentPath).kind # "html" THEN "file not found"
           ELSE ""

\* the content document of a spine item that is not skipped
SpineDoc(zip, opf, basePath, itemref) == EntryData(zip, basePath \o ManifestGet(opf, itemref.idref)).doc

\* the paragraphs with the images after what processElement finds
StructuredParagraphsTextFirst(zip, basePath, doc) ==
  ProcessElements(WithoutTitleElement(doc).body, ChapterTitle(doc))
    \o ProcessImages(zip, basePath, SelectSeq(Preorder(WithoutTitleElement(doc).body), IsImg))

\* lines 401-669: the paragraphs of a content document before their ids are
\* given: the images and what processElement finds or, when that is nothing,
\* what the plain-text fallback finds
StructuredParagraphs(zip, basePath, doc) ==
  ProcessImages(zip, basePath, SelectSeq(Preorder(WithoutTitleElement(doc).body), IsImg))
    \o ProcessElements(WithoutTitleElement(doc).body, ChapterTitle(doc))

FallbackParagraphs(chapterText) ==
  IF Len(chapterText) < 100 THEN <<>> ELSE Accumulate(Sentences(chapterText), <<>>)

DocParagraphs(zip, basePath, doc) ==
  IF StructuredParagraphs(zip, basePath, doc) # <<>>
  THEN StructuredParagraphs(zip, basePath, doc)
  ELSE FallbackParagraphs(HtmlToText(doc))

\* lines 640 and 668: what the document adds to allText
DocText(doc, structured) ==
  IF structured # <<>> THEN JoinTexts(structured) \o <<" ">>
  ELSE IF Len(HtmlToText(doc)) < 100 THEN <<>>
  ELSE HtmlToText(doc) \o <<" ">>

\* lines 671-681: the chapter of a content document that has paragraphs
EpubChapter(chs, title, paragraphs) ==
  [ id |-> <<"c", "h">> \o NumToString(Len(chs) + 1),
    title |-> IF title # <<>> THEN title ELSE ChapterN(Len(chs) + 1),
    paragraphs |-> paragraphs ]

ContainerPath == <<"M", "E", "T", "A", "-", "I", "N", "F", "/", "c", "o", "n", "t", "a", "i", "n", "e", "r", ".", "x", "m", "l">>

(***************************************************************************)
(* Inputs.  A File is its name, its size in bytes and its content; the     *)
(* content of a text file is its decoded text.                             *)
(***************************************************************************)
SeqsUpTo(S, n) == UNION {[1..k -> S] : k \in 0..n}

Newline == <<"\n">>

\* lines combined freely into texts of up to MaxLines lines
LineSamples ==
  { <<"C", "h", "a", "p", "t", "e", "r", " ", "O", "n", "e">>,                  \* a marker line
    <<"c", "h", "a", "p", "t", "e", "r", " ", "2", ":", " ", "t", "h", "e", " ", "r", "o", "a", "d", "\r">>,        \* a marker in lower case, CRLF line end
    <<"A", " ", "1", "5", "-", "c", "h", "a", "r", " ", "t", "i", "t", "l", "e">>,              \* 15 characters, no terminal punctuation
    <<"I", "t", " ", "w", "a", "s", " ", "r", "a", "i", "n", "i", "n", "g", ".">>,              \* 15 characters ending in '.'
    <<" ", " ">>,                           \* blank
    <<"U+7B2C", "U+4E00", "U+7AE0">> }    \* a CJK marker line

\* lines at the edges of the heading test, each tried alone and after a marker
EdgeLines ==
  { Rep("x", 10), Rep("x", 11), Rep("x", 99), Rep("x", 100), Rep("x", 101),
    <<"I", "s", " ", "i", "t", " ", "r", "a", "i", "n", "i", "n", "g", "?">>, <<"I", "t", " ", "i", "s", " ", "r", "a", "i", "n", "i", "n", "g", "!">>, <<" ", " ", "A", "n", " ", "i", "n", "d", "e", "n", "t", "e", "d", " ", "t", "i", "t", "l", "e", " ", " ">>,
    Rep("x", 50) \o <<".">>, <<"S", "h", "o", "r", "t">>, <<>> }

Texts ==
  {Join(ls, Newline) : ls \in SeqsUpTo(LineSamples, MaxLines)}
    \cup {e : e \in EdgeLines}
    \cup {<<"C", "h", "a", "p", "t", "e", "r", " ", "O", "n", "e">> \o Newline \o e : e \in EdgeLines}

\* texts of ten characters with four, three or one character of a CJK script
LanguageTexts ==
  { <<"U+4E66", "U+4E00", "U+7B2C", "U+7AE0", "a", "b", "c", "d", "e", "f">>,     \* 40% ideographs
    <<"U+4E66", "U+4E00", "U+7B2C", "a", "b", "c", " ", "d", "e", "f", "g">>,           \* 30% of the non-blank characters
    <<"U+4E66", "a", "b", "c", "d", "e", "f", "g", "h", "i">>,                          \* 10% ideographs
    <<"U+3042", "U+3044", "U+30A2", "U+30A4", "a", "b", "c", "d", "e", "f">>,     \* 40% Hiragana and Katakana
    <<"U+D55C", "U+AE00", "U+D55C", "U+AE00", "a", "b", "c", "d", "e", "f">>,     \* 40% Hangul
    <<"U+3042", "a", "b", "c", "d", "e", "f", "g", "h", "i">> }                         \* 10% Hiragana

SmallSize == 2 * 1024

TextFile(name, text) == [name |-> name, size |-> SmallSize, type |-> "text", text |-> text]

TxtFiles ==
  {TextFile(<<"b", "o", "o", "k", ".", "t", "x", "t">>, t) : t \in Texts}
    \cup {TextFile(n, <<"C", "h", "a", "p", "t", "e", "r", " ", "O", "n", "e">> \o Newline \o <<"I", "t", " ", "w", "a", "s", " ", "r", "a", "i", "n", "i", "n", "g", ".">>) :
            n \in {<<"N", "O", "T", "E", "S", ".", "T", "X", "T">>, <<"t", "x", "t">>, <<"o", "l", "d", ".", "p", "d", "f", ".", "t", "x", "t">>}}
    \cup {TextFile(<<"l", "a", "n", "g", ".", "t", "x", "t">>, t) : t \in LanguageTexts}
    \cup {TextFile(<<"l", "o", "n", "g", ".", "t", "x", "t">>, Rep("x", 99) \o <<".">> \o Newline \o Rep("y", 99) \o <<".">>
                                   \o Newline \o Rep("z", 99) \o <<".">>)}

\* files no extractor accepts
OtherFiles ==
  { [name |-> <<"n", "o", "t", "e", "s", ".", "d", "o", "c">>, size |-> SmallSize, type |-> "text", text |-> <<"I", "t", " ", "w", "a", "s", " ", "r", "a", "i", "n", "i", "n", "g", ".">>],
    [name |-> <<"R", "E", "A", "D", "M", "E">>, size |-> SmallSize, type |-> "text", text |-> <<"I", "t", " ", "w", "a", "s", " ", "r", "a", "i", "n", "i", "n", "g", ".">>],
    [name |-> <<"b", "o", "o", "k", ".", "t", "x", "t", ".", "b", "a", "k">>, size |-> SmallSize, type |-> "text", text |-> <<"I", "t", " ", "w", "a", "s", " ", "r", "a", "i", "n", "i", "n", "g", ".">>],
    [name |-> <<"e", "x", "p", "o", "r", "t", ".", "j", "s", "o", "n">>, size |-> SmallSize, type |-> "text", text |-> <<"I", "t", " ", "w", "a", "s", " ", "r", "a", "i", "n", "i", "n", "g", ".">>],
    [name |-> <<"h", "u", "g", "e", ".", "t", "x", "t">>, size |-> 100 * 1024 * 1024 + 1, type |-> "text",
     text |-> <<"I", "t", " ", "w", "a", "s", " ", "r", "a", "i", "n", "i", "n", "g", ".">>] }

\* A PDF page as pdf.js serves it: whether getPage / getTextContent succeed,
\* the str of its text items, and what rendering it to a canvas does
\* ("ok", "throws", or "nocontext" when canvas.getContext('2d') is null).
Page(load, items, render) == [load |-> load, items |-> items, render |-> render]

FigurePage == Page("ok", <<<<"F", "i", "g", "u", "r", "e", " ", "1">>>>, "ok")

\* a text page of a chapter marker and a paragraph
MarkerPage == Page("ok", <<<<"C", "h", "a", "p", "t", "e", "r", " ", "2", " ", "T", "h", "e", " ", "J", "o", "u", "r", "n", "e", "y", " ", "B", "e", "g", "i", "n", "s", ".">>, <<" ">> \o Rep("y", 80) \o <<".">>>>, "ok")

PageSamples ==
  { FigurePage,                                               \* 8 characters
    Page("ok", <<Rep("z", 25), Rep("z", 24)>>, "throws"),        \* 50 characters
    Page("ok", <<>>, "nocontext"),                               \* no text at all
    MarkerPage,
    Page("ok", <<Rep("w", 119) \o <<".">>>>, "ok"),                 \* one long paragraph
    Page("ok", <<<<" ", " ">> \o Rep("v", 97) \o <<" ">>>>, "ok"),         \* 100 characters, 97 trimmed
    Page("getPage throws", <<>>, "ok") }

\* a text page of two candidates, neither a marker: a heading and a paragraph
PlainPage == Page("ok", <<<<"A", " ", "h", "e", "a", "d", "i", "n", "g", " ", "o", "f", " ", "t", "h", "i", "r", "t", "y", " ", "c", "h", "a", "r", "a", "c", "t", "e", "r", "s">>, <<"\n", "\n">>, Rep("u", 90) \o <<".">>>>, "ok")

\* a text page all of whose fragments have 20 characters
FragmentPage ==
  Page("ok", <<Rep("a", 20) \o <<".", " ", " ">> \o Rep("b", 20) \o <<".", " ", " ">> \o Rep("c", 20) \o <<".", " ", " ">>
                 \o Rep("d", 20) \o <<".", " ", " ">> \o Rep("e", 20)>>, "ok")

PdfFile(name, openable, pages) ==
  [name |-> name, size |-> SmallSize, type |-> "pdf", openable |-> openable, pages |-> pages]

PdfFiles ==
  {PdfFile(<<"s", "c", "a", "n", ".", "p", "d", "f">>, TRUE, ps) : ps \in SeqsUpTo(PageSamples, MaxPages) \ {<<>>}}
    \cup {PdfFile(<<"L", "o", "c", "k", "e", "d", ".", "P", "D", "F">>, FALSE, <<>>)}
    \cup {PdfFile(<<"l", "o", "n", "g", ".", "p", "d", "f">>, TRUE, [k \in 1..n |-> PlainPage]) : n \in {10, 11}}
    \cup {PdfFile(<<"l", "o", "n", "g", ".", "p", "d", "f">>, TRUE, [k \in 1..11 |-> IF k = 10 THEN FigurePage ELSE PlainPage]),
          PdfFile(<<"p", "a", "r", "t", "s", ".", "p", "d", "f">>, TRUE, [k \in 1..10 |-> IF k = 2 THEN MarkerPage ELSE PlainPage]),
          PdfFile(<<"b", "i", "t", "s", ".", "p", "d", "f">>, TRUE, <<FragmentPage>>),
          PdfFile(<<"b", "i", "t", "s", ".", "p", "d", "f">>, TRUE, <<FragmentPage, PlainPage>>)}

(***************************************************************************)
(* Inputs: EPUB archives.                                                  *)
(***************************************************************************)
Entry(name, data) == [name |-> name, data |-> data]

Elem(tag, text, kids) == [tag |-> tag, text |-> text, kids |-> kids]

Img(src, alt) == [tag |-> "img", text |-> <<>>, kids |-> <<>>, src |-> src, alt |-> alt]

Html(doc) == [kind |-> "html", doc |-> doc]

Image == [kind |-> "image"]

Corrupt == [kind |-> "corrupt"]

Xhtml == <<"a", "p", "p", "l", "i", "c", "a", "t", "i", "o", "n", "/", "x", "h", "t", "m", "l", "+", "x", "m", "l">>

Item(id, href, mediaType) == [id |-> id, href |-> href, mediaType |-> mediaType]

\* a content document with a title, paragraphs, a nested section and a leaf container
GoodDoc ==
  [ title |-> <<"c", "h", "1">>,
    body |-> << Elem("h1", <<"T", "h", "e", " ", "B", "e", "g", "i", "n", "n", "i", "n", "g">>, <<>>),
                Elem("p", <<"I", "t", " ", "w", "a", "s", " ", "a", " ", "b", "r", "i", "g", "h", "t", " ", "c", "o", "l", "d", " ", "d", "a", "y", " ", "i", "n", " ", "A", "p", "r", "i", "l", ",", " ", "a", "n", "d", " ", "s", "o", " ", "o", "n", ".">>, <<>>),
                Elem("p", <<"T", "o", "o", " ", "s", "h", "o", "r", "t", ".">>, <<>>),
                Elem("div", <<>>, << Elem("h2", <<"A", " ", "S", "e", "c", "t", "i", "o", "n">>, <<>>),
                                     Elem("p", Rep("s", 59) \o <<".">>, <<>>) >>),
                Elem("div", <<"A", " ", "l", "e", "a", "f", " ", "c", "o", "n", "t", "a", "i", "n", "e", "r", " ", "o", "f", " ", "t", "h", "i", "r", "t", "y", " ", "c", "h", ".">>, <<>>) >> ]

\* a document whose markup yields no paragraph and whose text is short
ShortDoc == [title |-> <<"N", "o", "t", "e", "s">>, body |-> <<Elem("p", <<"T", "o", "o", " ", "s", "h", "o", "r", "t", ".">>, <<>>)>>]

\* a document without block markup: 210 characters of sentences in a span
ProseDoc ==
  [ body |-> << Elem("span", Rep("m", 69) \o <<".">> \o Rep("n", 69) \o <<"!">> \o Rep("o", 69) \o <<".">>,
                     <<>>) >> ]

\* a document with an image and a paragraph
PictureDoc(src) ==
  [ body |-> << Elem("p", <<"A", " ", "p", "i", "c", "t", "u", "r", "e", " ", "f", "o", "l", "l", "o", "w", "s", " ", "t", "h", "i", "s", " ", "p", "a", "r", "a", "g", "r", "a", "p", "h", ".">>, <<>>),
                Elem("div", <<>>, <<Img(src, <<"A", " ", "p", "i", "c", "t", "u", "r", "e">>)>>) >> ]

NoSrcDoc ==
  [ body |-> << Elem("p", <<"A", " ", "p", "i", "c", "t", "u", "r", "e", " ", "f", "o", "l", "l", "o", "w", "s", " ", "t", "h", "i", "s", " ", "p", "a", "r", "a", "g", "r", "a", "p", "h", ".">>, <<>>),
                [tag |-> "img", text |-> <<>>, kids |-> <<>>] >> ]

\* A spine sample: an itemref, the manifest items and the archive entries that
\* go with it.  Paths are relative to OEBPS/, where the package document is.
SpineSample(itemref, items, entries) == [itemref |-> itemref, items |-> items, entries |-> entries]

\* <<>> stands for an element without attributes
NoAttributes == <<>>

SpineSamples ==
  { SpineSample([idref |-> <<"c", "h", "1">>], <<Item(<<"c", "h", "1">>, <<"t", "e", "x", "t", "/", "c", "h", "1", ".", "x", "h", "t", "m", "l">>, Xhtml)>>,
                <<Entry(<<"O", "E", "B", "P", "S", "/", "t", "e", "x", "t", "/", "c", "h", "1", ".", "x", "h", "t", "m", "l">>, Html(GoodDoc))>>),
    SpineSample(NoAttributes, <<>>, <<>>),
    SpineSample([idref |-> <<"g", "o", "n", "e">>], <<>>, <<>>),
    SpineSample([idref |-> <<"c", "h", "2">>], <<Item(<<"c", "h", "2">>, <<"t", "e", "x", "t", "/", "c", "h", "2", ".", "x", "h", "t", "m", "l">>, Xhtml)>>, <<>>),
    SpineSample([idref |-> <<"c", "h", "3">>], <<Item(<<"c", "h", "3">>, <<"t", "e", "x", "t", "/", "c", "h", "3", ".", "x", "h", "t", "m", "l">>, Xhtml)>>,
                <<Entry(<<"O", "E", "B", "P", "S", "/", "t", "e", "x", "t", "/", "c", "h", "3", ".", "x", "h", "t", "m", "l">>, Corrupt)>>),
    SpineSample([idref |-> <<"c", "h", "4">>], <<Item(<<"c", "h", "4">>, <<"t", "e", "x", "t", "/", "c", "h", "4", ".", "x", "h", "t", "m", "l">>, Xhtml)>>,
                <<Entry(<<"O", "E", "B", "P", "S", "/", "t", "e", "x", "t", "/", "c", "h", "4", ".", "x", "h", "t", "m", "l">>, Html(ShortDoc))>>),
    SpineSample([idref |-> <<"c", "h", "5">>], <<Item(<<"c", "h", "5">>, <<"t", "e", "x", "t", "/", "c", "h", "5", ".", "x", "h", "t", "m", "l">>, Xhtml)>>,
                <<Entry(<<"O", "E", "B", "P", "S", "/", "t", "e", "x", "t", "/", "c", "h", "5", ".", "x", "h", "t", "m", "l">>, Html(ProseDoc))>>),
    SpineSample([idref |-> <<"c", "h", "6">>], <<Item(<<"c", "h", "6">>, <<"t", "e", "x", "t", "/", "c", "h", "6", ".", "x", "h", "t", "m", "l">>, Xhtml)>>,
                <<Entry(<<"O", "E", "B", "P", "S", "/", "t", "e", "x", "t", "/", "c", "h", "6", ".", "x", "h", "t", "m", "l">>, Html(PictureDoc(<<".", ".", "/", "i", "m", "a", "g", "e", "s", "/", "p", "i", "c", ".", "p", "n", "g">>))),
                  Entry(<<"O", "E", "B", "P", "S", "/", "i", "m", "a", "g", "e", "s", "/", "p", "i", "c", ".", "p", "n", "g">>, Image)>>),
    SpineSample([idref |-> <<"c", "h", "7">>], <<Item(<<"c", "h", "7">>, <<"t", "e", "x", "t", "/", "c", "h", "7", ".", "x", "h", "t", "m", "l">>, Xhtml)>>,
                <<Entry(<<"O", "E", "B", "P", "S", "/", "t", "e", "x", "t", "/", "c", "h", "7", ".", "x", "h", "t", "m", "l">>, [kind |-> "empty"])>>) }

\* an element with a class attribute
Classed(tag, class, text, kids) == [tag |-> tag, text |-> text, kids |-> kids, class |-> class]

Para == Elem("p", <<"I", "t", " ", "w", "a", "s", " ", "a", " ", "b", "r", "i", "g", "h", "t", " ", "c", "o", "l", "d", " ", "d", "a", "y", " ", "i", "n", " ", "A", "p", "r", "i", "l", ",", " ", "a", "n", "d", " ", "s", "o", " ", "o", "n", ".">>, <<>>)

\* 210 characters of sentences in a span
Prose == Elem("span", Rep("m", 69) \o <<".">> \o Rep("n", 69) \o <<"!">> \o Rep("o", 69) \o <<".">>, <<>>)

\* documents that differ in where their title is: an h2 only; an empty h1
\* before an h3; an h1 of 200 characters before a classed element; the
\* <title> only; nothing; an h1 in need of cleaning, repeated by an h2; an h1
\* before text without block markup; a <title> before such text
TitleDocs ==
  { [body |-> <<Elem("h2", <<"S", "e", "c", "o", "n", "d", " ", "L", "e", "v", "e", "l">>, <<>>), Para>>],
    [body |-> <<Elem("h1", <<>>, <<>>), Elem("h3", <<"T", "h", "i", "r", "d", " ", "L", "e", "v", "e", "l">>, <<>>), Para>>],
    [title |-> <<"I", "g", "n", "o", "r", "e", "d">>,
     body |-> <<Elem("h1", Rep("t", 200), <<>>), Classed("div", <<"c", "h", "a", "p", "t", "e", "r", "-", "t", "i", "t", "l", "e">>, <<"C", "l", "a", "s", "s", "e", "d">>, <<>>), Para>>],
    [title |-> <<"O", "n", "l", "y", " ", "T", "i", "t", "l", "e">>, body |-> <<Para>>],
    [body |-> <<Para>>],
    [body |-> <<Elem("h1", <<" ", "A", " ", " ", "T", "i", "t", "l", "e">>, <<>>), Elem("h2", <<"A", " ", "T", "i", "t", "l", "e">>, <<>>), Para>>],
    [body |-> <<Elem("h1", <<"T", "h", "e", " ", "B", "e", "g", "i", "n", "n", "i", "n", "g">>, <<>>), Prose>>],
    [title |-> <<"O", "n", "l", "y", " ", "T", "i", "t", "l", "e">>, body |-> <<Prose>>] }

RECURSIVE Concat(_)
Concat(seqs) == IF seqs = <<>> THEN <<>> ELSE Head(seqs) \o Concat(Tail(seqs))

Container(rootfile) == Entry(ContainerPath, [kind |-> "container", rootfile |-> rootfile])

Opf(path, manifest, spine) ==
  Entry(path, [kind |-> "opf", title |-> <<"A", " ", " ", "T", "a", "l", "e">>, manifest |-> manifest, spine |-> spine])

EpubFile(name, entries) ==
  [name |-> name, size |-> SmallSize, type |-> "zip", zipOk |-> TRUE, zip |-> entries]

\* the archive of a sequence of spine samples
SpineEpub(samples) ==
  EpubFile(<<"t", "a", "l", "e", ".", "e", "p", "u", "b">>,
           << Container(<<"O", "E", "B", "P", "S", "/", "c", "o", "n", "t", "e", "n", "t", ".", "o", "p", "f">>),
              Opf(<<"O", "E", "B", "P", "S", "/", "c", "o", "n", "t", "e", "n", "t", ".", "o", "p", "f">>,
                  Concat([k \in 1..Len(samples) |-> samples[k].items]),
                  [k \in 1..Len(samples) |-> samples[k].itemref]) >>
             \o Concat([k \in 1..Len(samples) |-> samples[k].entries]))

SpineEpubs == {SpineEpub(ss) : ss \in SeqsUpTo(SpineSamples, MaxSpine)}

\* the archive of one content document, and of a document after ProseDoc
DocSample(doc) ==
  SpineSample([idref |-> <<"d", "o", "c">>], <<Item(<<"d", "o", "c">>, <<"t", "e", "x", "t", "/", "d", "o", "c", ".", "x", "h", "t", "m", "l">>, Xhtml)>>,
              <<Entry(<<"O", "E", "B", "P", "S", "/", "t", "e", "x", "t", "/", "d", "o", "c", ".", "x", "h", "t", "m", "l">>, Html(doc))>>)

DocEpub(doc) == SpineEpub(<<DocSample(doc)>>)

TitleEpubs == {DocEpub(doc) : doc \in TitleDocs}

\* a document for the walk: headings of several levels, one repeating the
\* title; paragraphs of 19 and of 20 characters; a container with block
\* descendants and text of its own; leaf containers of 30 characters without
\* end mark, ending in a period, of 100 characters, and of 19 characters
WalkDoc ==
  [ body |-> << Elem("h1", <<"T", "h", "e", " ", "W", "a", "l", "k">>, <<>>),
                Elem("h2", <<"T", "h", "e", " ", "W", "a", "l", "k">>, <<>>),
                Elem("h4", <<"F", "o", "u", "r", "t", "h">>, <<>>),
                Elem("h6", <<>>, <<>>),
                Elem("p", Rep("a", 18) \o <<".">>, <<>>),
                Elem("p", Rep("b", 19) \o <<".">>, <<>>),
                Elem("div", <<"T", "e", "x", "t", " ", "o", "f", " ", "t", "h", "e", " ", "c", "o", "n", "t", "a", "i", "n", "e", "r", " ", "i", "t", "s", "e", "l", "f", ",", " ", "l", "o", "s", "t", ".">>,
                     << Elem("h5", <<"F", "i", "f", "t", "h">>, <<>>),
                        Elem("section", <<"T", "o", "o", " ", "s", "h", "o", "r", "t", " ", "a", " ", "l", "e", "a", "f">>, <<>>) >>),
                Elem("section", Rep("c", 30), <<>>),
                Elem("article", Rep("d", 29) \o <<"!">>, <<>>),
                Elem("main", Rep("e", 100), <<>>),
                Elem("aside", Rep("f", 19), <<>>) >> ]

\* leaf containers that end in a comma and in a semicolon
CommaDoc ==
  [ body |-> << Elem("h1", <<"T", "h", "e", " ", "W", "a", "l", "k">>, <<>>),
                Elem("div", Rep("g", 29) \o <<",">>, <<>>),
                Elem("div", Rep("h", 29) \o <<";">>, <<>>),
                Elem("div", Rep("k", 29) \o <<"?">>, <<>>) >> ]

WalkEpubs == {DocEpub(WalkDoc), DocEpub(CommaDoc)}

\* text without block markup: sentences of 80, 80 and 80 characters; of 80,
\* 80 and 10 characters
FallbackDocs ==
  { [body |-> <<Elem("span", Rep("x", 79) \o <<".">> \o Rep("y", 79) \o <<"!">> \o Rep("z", 79) \o <<"?">>,
                     <<>>)>>],
    [body |-> <<Elem("span", Rep("x", 79) \o <<".">> \o Rep("y", 79) \o <<"!">> \o <<"s", "h", "o", "r", "t", " ", "b", "i", "t", ".">>,
                     <<>>)>>] }

\* an image that resolves, before text without block markup
PictureProseDoc == [body |-> <<Img(<<".", ".", "/", "i", "m", "a", "g", "e", "s", "/", "p", "i", "c", ".", "p", "n", "g">>, <<"A", " ", "p", "i", "c", "t", "u", "r", "e">>), Prose>>]

PictureProseEpub ==
  SpineEpub(<<SpineSample([idref |-> <<"d", "o", "c">>], <<Item(<<"d", "o", "c">>, <<"t", "e", "x", "t", "/", "d", "o", "c", ".", "x", "h", "t", "m", "l">>, Xhtml)>>,
                          <<Entry(<<"O", "E", "B", "P", "S", "/", "t", "e", "x", "t", "/", "d", "o", "c", ".", "x", "h", "t", "m", "l">>, Html(PictureProseDoc)),
                            Entry(<<"O", "E", "B", "P", "S", "/", "i", "m", "a", "g", "e", "s", "/", "p", "i", "c", ".", "p", "n", "g">>, Image)>>)>>)

FallbackEpubs == {DocEpub(doc) : doc \in FallbackDocs} \cup {PictureProseEpub}

\* Manifest items that the cover search looks at
PropertyCover ==
  [id |-> <<"i", "m", "g", "1">>, href |-> <<"i", "m", "a", "g", "e", "s", "/", "f", "r", "o", "n", "t", ".", "j", "p", "g">>, mediaType |-> <<"i", "m", "a", "g", "e", "/", "j", "p", "e", "g">>,
   properties |-> <<"c", "o", "v", "e", "r", "-", "i", "m", "a", "g", "e">>]

IdCover == Item(<<"c", "o", "v", "e", "r", "-", "i", "m", "g">>, <<"i", "m", "a", "g", "e", "s", "/", "j", "a", "c", "k", "e", "t", ".", "j", "p", "g">>, <<"i", "m", "a", "g", "e", "/", "j", "p", "e", "g">>)

HrefCover == Item(<<"p", "i", "c">>, <<"i", "m", "a", "g", "e", "s", "/", "c", "o", "v", "e", "r", "-", "s", "m", "a", "l", "l", ".", "p", "n", "g">>, <<"i", "m", "a", "g", "e", "/", "p", "n", "g">>)

MetaCover == Item(<<"o", "t", "h", "e", "r", "-", "i", "m", "g">>, <<"i", "m", "a", "g", "e", "s", "/", "o", "t", "h", "e", "r", ".", "p", "n", "g">>, <<"i", "m", "a", "g", "e", "/", "p", "n", "g">>)

CoverItems == {PropertyCover, IdCover, HrefCover}

\* the orders of the subsets of the cover items
CoverManifests ==
  {m \in SeqsUpTo(CoverItems, 3) : \A a, b \in 1..Len(m) : a # b => m[a] # m[b]}

CoverEpub(manifest, meta) ==
  EpubFile(<<"t", "a", "l", "e", ".", "e", "p", "u", "b">>,
           << Container(<<"O", "E", "B", "P", "S", "/", "c", "o", "n", "t", "e", "n", "t", ".", "o", "p", "f">>),
              Entry(<<"O", "E", "B", "P", "S", "/", "c", "o", "n", "t", "e", "n", "t", ".", "o", "p", "f">>,
                    [kind |-> "opf", coverMeta |-> meta,
                     manifest |-> <<MetaCover>> \o manifest \o <<Item(<<"c", "h", "1">>, <<"t", "e", "x", "t", "/", "c", "h", "1", ".", "x", "h", "t", "m", "l">>, Xhtml)>>,
                     spine |-> <<[idref |-> <<"c", "h", "1">>]>>]),
              Entry(<<"O", "E", "B", "P", "S", "/", "t", "e", "x", "t", "/", "c", "h", "1", ".", "x", "h", "t", "m", "l">>, Html(GoodDoc)),
              Entry(<<"O", "E", "B", "P", "S", "/", "i", "m", "a", "g", "e", "s", "/", "f", "r", "o", "n", "t", ".", "j", "p", "g">>, Image),
              Entry(<<"O", "E", "B", "P", "S", "/", "i", "m", "a", "g", "e", "s", "/", "j", "a", "c", "k", "e", "t", ".", "j", "p", "g">>, Image),
              Entry(<<"O", "E", "B", "P", "S", "/", "i", "m", "a", "g", "e", "s", "/", "c", "o", "v", "e", "r", "-", "s", "m", "a", "l", "l", ".", "p", "n", "g">>, Image),
              Entry(<<"O", "E", "B", "P", "S", "/", "i", "m", "a", "g", "e", "s", "/", "o", "t", "h", "e", "r", ".", "p", "n", "g">>, Image) >>)

\* cover items whose href is not the path of the file below the package
\* document: with a leading slash, and a bare file name
MisplacedCovers ==
  { Item(<<"c", "o", "v", "e", "r", "-", "i", "m", "g">>, <<"/", "i", "m", "a", "g", "e", "s", "/", "j", "a", "c", "k", "e", "t", ".", "j", "p", "g">>, <<"i", "m", "a", "g", "e", "/", "j", "p", "e", "g">>),
    Item(<<"c", "o", "v", "e", "r", "-", "i", "m", "g">>, <<"j", "a", "c", "k", "e", "t", ".", "j", "p", "g">>, <<"i", "m", "a", "g", "e", "/", "j", "p", "e", "g">>),
    Item(<<"c", "o", "v", "e", "r", "-", "i", "m", "g">>, <<"i", "m", "a", "g", "e", "s", "/", "l", "o", "s", "t", ".", "j", "p", "g">>, <<"i", "m", "a", "g", "e", "/", "j", "p", "e", "g">>) }

CoverEpubs ==
  {CoverEpub(m, meta) : m \in CoverManifests, meta \in {<<>>, <<"o", "t", "h", "e", "r", "-", "i", "m", "g">>, <<"n", "o", "t", "h", "i", "n", "g">>}}
    \cup {CoverEpub(<<it>>, <<>>) : it \in MisplacedCovers}

\* Archives with one content document with one <img>: where the package
\* document is, what the src is, and where the asset is
Layouts ==
  { [opf |-> <<"O", "E", "B", "P", "S", "/", "c", "o", "n", "t", "e", "n", "t", ".", "o", "p", "f">>, href |-> <<"t", "e", "x", "t", "/", "c", "h", "1", ".", "x", "h", "t", "m", "l">>],
    [opf |-> <<"O", "E", "B", "P", "S", "/", "t", "e", "x", "t", "/", "c", "o", "n", "t", "e", "n", "t", ".", "o", "p", "f">>, href |-> <<"c", "h", "1", ".", "x", "h", "t", "m", "l">>],
    [opf |-> <<"c", "o", "n", "t", "e", "n", "t", ".", "o", "p", "f">>, href |-> <<"O", "E", "B", "P", "S", "/", "t", "e", "x", "t", "/", "c", "h", "1", ".", "x", "h", "t", "m", "l">>] }

ImageSources ==
  { <<".", ".", "/", "i", "m", "a", "g", "e", "s", "/", "p", "i", "c", ".", "p", "n", "g">>, <<"i", "m", "a", "g", "e", "s", "/", "p", "i", "c", ".", "p", "n", "g">>, <<"/", "i", "m", "a", "g", "e", "s", "/", "p", "i", "c", ".", "p", "n", "g">>, <<"p", "i", "c", ".", "p", "n", "g">>,
    <<"h", "t", "t", "p", ":", "/", "/", "c", "d", "n", ".", "e", "x", "a", "m", "p", "l", "e", "/", "p", "i", "c", ".", "p", "n", "g">> }

AssetEntries ==
  { <<Entry(<<"O", "E", "B", "P", "S", "/", "i", "m", "a", "g", "e", "s", "/", "p", "i", "c", ".", "p", "n", "g">>, Image)>>,
    <<Entry(<<"i", "m", "a", "g", "e", "s", "/", "p", "i", "c", ".", "p", "n", "g">>, Image)>>,
    <<Entry(<<"O", "E", "B", "P", "S", "/", "t", "e", "x", "t", "/", "i", "m", "a", "g", "e", "s", "/", "p", "i", "c", ".", "p", "n", "g">>, Image)>>,
    <<Entry(<<"O", "E", "B", "P", "S", "/", "i", "m", "a", "g", "e", "s", "/", "p", "i", "c", ".", "p", "n", "g">>, Corrupt)>>,
    <<>> }

ImageEpub(layout, doc, assets) ==
  EpubFile(<<"t", "a", "l", "e", ".", "e", "p", "u", "b">>,
           << Container(layout.opf),
              Opf(layout.opf, <<Item(<<"c", "h", "1">>, layout.href, Xhtml)>>, <<[idref |-> <<"c", "h", "1">>]>>),
              Entry(<<"O", "E", "B", "P", "S", "/", "t", "e", "x", "t", "/", "c", "h", "1", ".", "x", "h", "t", "m", "l">>, Html(doc)) >> \o assets)

ImageEpubs ==
  {ImageEpub(l, PictureDoc(src), a) : l \in Layouts, src \in ImageSources, a \in AssetEntries}
    \cup {ImageEpub(l, NoSrcDoc, <<Entry(<<"O", "E", "B", "P", "S", "/", "i", "m", "a", "g", "e", "s", "/", "p", "i", "c", ".", "p", "n", "g">>, Image)>>) : l \in Layouts}
    \cup {ImageEpub(l, PictureDoc(<<".", ".", "/", "i", "m", "a", "g", "e", "s", "/", "p", "i", "c", ".", "p", "n", "g">>),
                    <<Entry(<<"i", "m", "a", "g", "e", "s", "/", "p", "i", "c", ".", "p", "n", "g">>, Image), Entry(<<"O", "E", "B", "P", "S", "/", "i", "m", "a", "g", "e", "s", "/", "p", "i", "c", ".", "p", "n", "g">>, Image)>>)
            : l \in Layouts}

\* Archives that are refused, or that hold nothing to read
BrokenEpubs ==
  { [name |-> <<"B", "r", "o", "k", "e", "n", ".", "E", "P", "U", "B">>, size |-> SmallSize, type |-> "zip", zipOk |-> FALSE, zip |-> <<>>],
    EpubFile(<<"t", "a", "l", "e", ".", "e", "p", "u", "b">>, <<Entry(<<"m", "i", "m", "e", "t", "y", "p", "e">>, [kind |-> "other"])>>),
    EpubFile(<<"t", "a", "l", "e", ".", "e", "p", "u", "b">>, <<Entry(ContainerPath, Corrupt)>>),
    EpubFile(<<"t", "a", "l", "e", ".", "e", "p", "u", "b">>, <<Entry(ContainerPath, [kind |-> "empty"])>>),
    EpubFile(<<"t", "a", "l", "e", ".", "e", "p", "u", "b">>, <<Entry(ContainerPath, [kind |-> "container"])>>),
    EpubFile(<<"t", "a", "l", "e", ".", "e", "p", "u", "b">>, <<Container(<<"O", "E", "B", "P", "S", "/", "c", "o", "n", "t", "e", "n", "t", ".", "o", "p", "f">>)>>),
    EpubFile(<<"t", "a", "l", "e", ".", "e", "p", "u", "b">>, <<Container(<<"O", "E", "B", "P", "S", "/", "c", "o", "n", "t", "e", "n", "t", ".", "o", "p", "f">>), Entry(<<"O", "E", "B", "P", "S", "/", "c", "o", "n", "t", "e", "n", "t", ".", "o", "p", "f">>, Corrupt)>>),
    EpubFile(<<"t", "a", "l", "e", ".", "e", "p", "u", "b">>, <<Container(<<"O", "E", "B", "P", "S", "/", "c", "o", "n", "t", "e", "n", "t", ".", "o", "p", "f">>),
                             Entry(<<"O", "E", "B", "P", "S", "/", "c", "o", "n", "t", "e", "n", "t", ".", "o", "p", "f">>, [kind |-> "other"])>>) }

EpubFiles == SpineEpubs \cup CoverEpubs \cup ImageEpubs \cup BrokenEpubs \cup TitleEpubs \cup WalkEpubs
               \cup FallbackEpubs

Files == TxtFiles \cup PdfFiles \cup EpubFiles \cup OtherFiles

(***************************************************************************)
(* State.                                                                  *)
(***************************************************************************)
VARIABLES
  file,            \* the File handed to the caller
  caller,          \* "BookUpload" (processFile) or "direct" (parseBookFile called directly)
  pc,              \* the point of control
  calls,           \* the extractors parseBookFile has called, in order
  lines,           \* parseTxtFile: const lines
  i,               \* the loop index of the running extractor
  chapters,        \* const chapters: Chapter[]
  currentChapter,  \* let currentChapter
  paragraphId,     \* let paragraphId
  chapterCount,    \* let chapterCount
  allText,         \* let allText
  canvases,        \* parsePdfFile: the canvases of line 125 that the call has created
                   \* and that no statement of it has released (when the runtime
                   \* reclaims a canvas that is no longer referenced is not known)
  thrown,          \* the Error parseBookFile caught, if any
  result,          \* what parseBookFile returned
  uploadStatus,    \* BookUpload: uploadStatus
  toast,           \* BookUpload: the last toast.error / toast.success
  prev             \* the other call of the caller: the outcome of the call before
                   \* this one, or the frame of the call that is in flight beside it

vars ==
  <<file, caller, pc, calls, lines, i, chapters, currentChapter, paragraphId,
    chapterCount, allText, canvases, thrown, result, uploadStatus, toast, prev>>

locals == <<lines, i, chapters, currentChapter, paragraphId, chapterCount, allText>>

upload == <<uploadStatus, toast>>

Null == [null |-> TRUE]

NoError == [message |-> "", detail |-> <<>>]

NoToast == [title |-> "", description |-> ""]

NoPrev == [thrown |-> NoError, result |-> Null, toast |-> NoToast, none |-> TRUE]

IsBook(r) == "chapters" \in DOMAIN r

\* the state in which a call begins
Begin(f, c) ==
  /\ file = f
  /\ caller = c
  /\ pc = IF c = "BookUpload" THEN "processFile" ELSE "parseBookFile"
  /\ calls = <<>>
  /\ lines = <<>>
  /\ i = 0
  /\ chapters = <<>>
  /\ currentChapter = NewChapter(1, ChapterN(1))
  /\ paragraphId = 0
  /\ chapterCount = 1
  /\ allText = <<>>
  /\ canvases = 0
  /\ thrown = NoError
  /\ result = Null
  /\ uploadStatus = "idle"
  /\ toast = NoToast

Callers == {"BookUpload", "direct"}

InitOver(files) == \E f \in files, c \in Callers : Begin(f, c) /\ prev = NoPrev

Init == InitOver(Files)

(***************************************************************************)
(* parseBookFile                                                           *)
(***************************************************************************)
\* the extension as written, without toLowerCase
ExtensionAsWritten(name) == Last(Split(name, "."))

\* file.name.split('.').pop()?.toLowerCase()
Extension(name) == ToLowerCase(Last(Split(name, ".")))

ExtractorOf(extension) ==
  IF extension = <<"t", "x", "t">> THEN "parseTxtFile"
  ELSE IF extension = <<"p", "d", "f">> THEN "parsePdfFile"
  ELSE IF extension = <<"e", "p", "u", "b">> THEN "parseEpubFile"
  ELSE "default"

\* the catch of parseBookFile: console.error and return null
CatchAndReturnNull(error) ==
  /\ thrown' = error
  /\ result' = Null
  /\ pc' = "returned"

ParseBookFile ==
  /\ pc = "parseBookFile"
  /\ LET extension == Extension(file.name)
         extractor == ExtractorOf(extension)
     IN  IF extractor = "default"
         THEN /\ CatchAndReturnNull([message |-> "Unsupported file format: ", detail |-> extension])
              /\ UNCHANGED calls
         ELSE /\ calls' = Append(calls, extractor)
              /\ pc' = extractor
              /\ UNCHANGED <<thrown, result>>
  /\ UNCHANGED <<file, caller, canvases, locals, upload, prev>>

(***************************************************************************)
(* parseTxtFile                                                            *)
(***************************************************************************)
NonBlank(line) == Trim(line) # <<>>

TxtParagraph(id, line) ==
  IF IsHeading(line)
  THEN [id |-> ParagraphIdOf(id), text |-> line, isHeading |-> TRUE, headingLevel |-> 3]
  ELSE [id |-> ParagraphIdOf(id), text |-> line, isHeading |-> FALSE]

AddParagraph(ch, p) == [ch EXCEPT !.paragraphs = Append(@, p)]

\* parseTxtFile with currentChapter declared outside the function
ParseTxtFileKeeping ==
  /\ pc = "parseTxtFile"
  /\ lines' = SelectSeq(Split(file.text, "\n"), NonBlank)
  /\ chapters' = <<>>
  /\ currentChapter' = currentChapter
  /\ paragraphId' = 0
  /\ chapterCount' = 1
  /\ i' = 0
  /\ pc' = "txtLoop"
  /\ UNCHANGED <<file, caller, canvases, calls, allText, thrown, result, upload, prev>>

\* lines 11-23: read the text, split it into non-blank lines, set up the locals
ParseTxtFile ==
  /\ pc = "parseTxtFile"
  /\ lines' = SelectSeq(Split(file.text, "\n"), NonBlank)
  /\ chapters' = <<>>
  /\ currentChapter' = NewChapter(1, ChapterN(1))
  /\ paragraphId' = 0
  /\ chapterCount' = 1
  /\ i' = 0
  /\ pc' = "txtLoop"
  /\ UNCHANGED <<file, caller, canvases, calls, allText, thrown, result, upload, prev>>

\* the loop with the paragraph counter starting again at every chapter marker
TxtLineResetting ==
  /\ pc = "txtLoop"
  /\ i < Len(lines)
  /\ \E line \in {Trim(lines[i + 1])} :
       IF IsChapterTitle(line) /\ Len(currentChapter.paragraphs) > 0
       THEN /\ chapters' = Append(chapters, currentChapter)
            /\ chapterCount' = chapterCount + 1
            /\ currentChapter' = NewChapter(chapterCount + 1, line)
            /\ paragraphId' = 0
       ELSE IF Len(line) > 0
       THEN /\ currentChapter' = AddParagraph(currentChapter, TxtParagraph(paragraphId, line))
            /\ paragraphId' = paragraphId + 1
            /\ UNCHANGED <<chapters, chapterCount>>
       ELSE UNCHANGED <<chapters, chapterCount, currentChapter, paragraphId>>
  /\ i' = i + 1
  /\ UNCHANGED <<file, caller, canvases, pc, calls, lines, allText, thrown, result, upload, prev>>

\* lines 25-52: one iteration of the loop over the lines
TxtLine ==
  /\ pc = "txtLoop"
  /\ i < Len(lines)
  /\ \E line \in {Trim(lines[i + 1])} :
       IF IsChapterTitle(line) /\ Len(currentChapter.paragraphs) > 0
       THEN /\ chapters' = Append(chapters, currentChapter)
            /\ chapterCount' = chapterCount + 1
            /\ currentChapter' = NewChapter(chapterCount + 1, line)
            /\ UNCHANGED paragraphId
       ELSE IF Len(line) > 0
       THEN /\ currentChapter' = AddParagraph(currentChapter, TxtParagraph(paragraphId, line))
            /\ paragraphId' = paragraphId + 1
            /\ UNCHANGED <<chapters, chapterCount>>
       ELSE UNCHANGED <<chapters, chapterCount, currentChapter, paragraphId>>
  /\ i' = i + 1
  /\ UNCHANGED <<file, caller, canvases, pc, calls, lines, allText, thrown, result, upload, prev>>

\* lines 54-57: the last chapter is added when it holds paragraphs
WithLastChapter(chs, cur) == IF Len(cur.paragraphs) > 0 THEN Append(chs, cur) ELSE chs

\* lines 59-78: the Book of parseTxtFile
TxtBook(name, text, chs) ==
  LET bookTitle == StripExtension(name)
  IN  [ title |-> bookTitle,
        author |-> <<"U", "n", "k", "n", "o", "w", "n", " ", "A", "u", "t", "h", "o", "r">>,
        cover |-> PlaceholderCover(bookTitle),
        pages |-> Ceil(SumLen(chs), 3),
        language |-> DetectLanguage(text),
        synopsis |-> Substring0(text, 200) \o Ellipsis,
        chapters |-> chs ]

TxtReturn ==
  /\ pc = "txtLoop"
  /\ i = Len(lines)
  /\ chapters' = WithLastChapter(chapters, currentChapter)
  /\ \E now \in Clock : result' = WithId(TxtBook(file.name, file.text, chapters'), now)
  /\ pc' = "returned"
  /\ UNCHANGED <<file, caller, canvases, calls, lines, i, currentChapter, paragraphId, chapterCount,
                 allText, thrown, upload, prev>>

(***************************************************************************)
(* parsePdfFile                                                            *)
(***************************************************************************)
\* pageText.split(/\n\n+|\. {2,}/).filter(p => p.trim().length > 20).
\* A separator is a run of two or more line breaks, or a period with the two
\* or more spaces after it; the pieces are the runs of characters between
\* separators.  (The empty pieces split leaves between adjacent separators
\* or at an end never pass the filter.)
IsSeparatorAt(s, k) ==
  \/ s[k] = "\n" /\ ((k > 1 /\ s[k - 1] = "\n") \/ (k < Len(s) /\ s[k + 1] = "\n"))
  \/ s[k] = "." /\ k + 2 <= Len(s) /\ s[k + 1] = " " /\ s[k + 2] = " "
  \/ /\ s[k] = " "
     /\ \E d \in 1..(k - 1) :
          /\ s[d] = "."
          /\ d + 2 <= Len(s) /\ s[d + 2] = " "
          /\ \A m \in (d + 1)..k : s[m] = " "

\* line 157: pageText.split(/\n\n+|\. {2,}/)
PdfPieces(pageText) ==
  LET s == pageText
      sep == {k \in 1..Len(s) : IsSeparatorAt(s, k)}
      starts == {k \in (1..Len(s)) \ sep : k = 1 \/ (k - 1) \in sep}
      Start(j) == CHOOSE k \in starts : Cardinality({m \in starts : m <= k}) = j
      End(k) == CHOOSE e \in k..Len(s) :
                  /\ \A m \in k..e : m \notin sep
                  /\ e = Len(s) \/ (e + 1) \in sep
  IN  [j \in 1..Cardinality(starts) |-> SubSeq(s, Start(j), End(Start(j)))]

\* lines 156-158: the pieces that pass the filter
PdfCandidates(pageText) ==
  LET Long(p) == Len(Trim(p)) > 20
  IN  SelectSeq(PdfPieces(pageText), Long)

\* lines 139-145: the paragraph of a page rendered as an image
PageImageParagraph(id, n) ==
  [ id |-> ParagraphIdOf(id),
    text |-> <<"P", "a", "g", "e", " ">> \o NumToString(n),
    isImage |-> TRUE,
    imageUrl |-> [kind |-> "canvas", page |-> n],
    imageAlt |-> <<"P", "a", "g", "e", " ">> \o NumToString(n) \o <<" ", "-", " ", "I", "m", "a", "g", "e", "/", "D", "i", "a", "g", "r", "a", "m">> ]

\* The locals chapters, currentChapter, paragraphId, chapterCount as a record,
\* so that the forEach over the candidates of a page is a fold.
\* lines 160-186: the callback of paragraphs.forEach
PdfCandidate(st, text) ==
  LET trimmed == Trim(text)
      isChapterTitle == IsChapterTitle(trimmed) /\ Len(trimmed) < 100
  IN  IF trimmed = <<>> THEN st
      ELSE IF isChapterTitle /\ Len(st.currentChapter.paragraphs) > 0
      THEN [st EXCEPT !.chapters = Append(@, st.currentChapter),
                      !.chapterCount = @ + 1,
                      !.currentChapter = NewChapter(st.chapterCount + 1, trimmed)]
      ELSE [st EXCEPT !.currentChapter = AddParagraph(@, TxtParagraph(st.paragraphId, trimmed)),
                      !.paragraphId = @ + 1]

RECURSIVE PdfForEach(_, _)
PdfForEach(st, candidates) ==
  IF candidates = <<>> THEN st
  ELSE PdfForEach(PdfCandidate(st, Head(candidates)), Tail(candidates))

\* the forced split with the paragraph counter starting again in the new chapter
PdfForcedSplitResetting(st, n) ==
  IF n % 10 = 0 /\ Len(st.currentChapter.paragraphs) > 5
  THEN [st EXCEPT !.chapters = Append(@, st.currentChapter),
                  !.chapterCount = @ + 1,
                  !.paragraphId = 0,
                  !.currentChapter = NewChapter(st.chapterCount + 1, ChapterN(st.chapterCount + 1))]
  ELSE st

\* lines 188-197: a new chapter every 10 pages
PdfForcedSplit(st, n) ==
  IF n % 10 = 0 /\ Len(st.currentChapter.paragraphs) > 5
  THEN [st EXCEPT !.chapters = Append(@, st.currentChapter),
                  !.chapterCount = @ + 1,
                  !.currentChapter = NewChapter(st.chapterCount + 1, ChapterN(st.chapterCount + 1))]
  ELSE st

\* the image page without the try of line 123 deciding: the paragraph is
\* pushed whatever rendering did
PdfImagePageAlways(st, n, render) ==
  [st EXCEPT !.currentChapter = AddParagraph(@, PageImageParagraph(st.paragraphId, n)),
             !.paragraphId = @ + 1]

\* lines 122-153: a page with little text is rendered as an image
PdfImagePage(st, n, render) ==
  IF render = "ok"
  THEN [st EXCEPT !.currentChapter = AddParagraph(@, PageImageParagraph(st.paragraphId, n)),
                  !.paragraphId = @ + 1]
  ELSE st

PdfPageText(page) == Join(page.items, <<" ">>)

\* lines 122-125: the canvases a page makes the loop create, one when its
\* text is shorter than 100 characters
PdfCanvases(page) == IF Len(Trim(PdfPageText(page))) < 100 THEN 1 ELSE 0

\* lines 120-197: what page n does to the locals once its text is extracted
PdfPageStep(st, n, page) ==
  LET pageText == PdfPageText(page)
  IN  IF Len(Trim(pageText)) < 100
      THEN PdfImagePage(st, n, page.render)
      ELSE PdfForcedSplit(PdfForEach(st, PdfCandidates(pageText)), n)

PdfError == [message |-> "Failed to parse PDF file. The file may be corrupted or password-protected.",
             detail |-> <<>>]

\* lines 95-108: open the document and set up the locals; a document that
\* cannot be opened rejects, the catch of line 229 rethrows and parseBookFile
\* returns null
ParsePdfFile ==
  /\ pc = "parsePdfFile"
  /\ IF file.type # "pdf" \/ ~file.openable
     THEN /\ CatchAndReturnNull(PdfError)
          /\ UNCHANGED locals
     ELSE /\ chapters' = <<>>
          /\ currentChapter' = NewChapter(1, ChapterN(1))
          /\ paragraphId' = 0
          /\ chapterCount' = 1
          /\ allText' = <<>>
          /\ i' = 1
          /\ pc' = "pdfLoop"
          /\ UNCHANGED <<lines, thrown, result>>
  /\ UNCHANGED <<file, caller, canvases, calls, upload, prev>>

\* lines 111-198: one iteration of the loop over the pages.  getPage and
\* getTextContent are awaited outside any inner try, so their rejection
\* reaches the catch of line 229.
PdfPage ==
  /\ pc = "pdfLoop"
  /\ i <= Len(file.pages)
  /\ \E page \in {file.pages[i]} :
       IF page.load # "ok"
       THEN /\ CatchAndReturnNull(PdfError)
            /\ UNCHANGED <<locals, canvases>>
       ELSE \E after \in {PdfPageStep([chapters |-> chapters, currentChapter |-> currentChapter,
                                       paragraphId |-> paragraphId, chapterCount |-> chapterCount],
                                      i, page)} :
              /\ allText' = allText \o PdfPageText(page) \o Newline
              /\ canvases' = canvases + PdfCanvases(page)
              /\ chapters' = after.chapters
              /\ currentChapter' = after.currentChapter
              /\ paragraphId' = after.paragraphId
              /\ chapterCount' = after.chapterCount
              /\ i' = i + 1
              /\ UNCHANGED <<lines, pc, thrown, result>>
  /\ UNCHANGED <<file, caller, calls, upload, prev>>

\* the last chapter only, without the chapter of lines 205-208
PdfChaptersNoneAdded(chs, cur) == WithLastChapter(chs, cur)

\* lines 200-208: the last chapter, and one chapter at least
PdfChapters(chs, cur) ==
  LET withLast == WithLastChapter(chs, cur)
  IN  IF Len(withLast) = 0 THEN <<cur>> ELSE withLast

\* lines 210-228: the Book of parsePdfFile
PdfBook(name, numPages, text, chs) ==
  LET bookTitle == StripExtension(name)
  IN  [ title |-> bookTitle,
        author |-> <<"U", "n", "k", "n", "o", "w", "n", " ", "A", "u", "t", "h", "o", "r">>,
        cover |-> PlaceholderCover(bookTitle),
        pages |-> numPages,
        language |-> DetectLanguage(text),
        synopsis |-> Substring0(text, 200) \o Ellipsis,
        chapters |-> chs ]

PdfReturn ==
  /\ pc = "pdfLoop"
  /\ i > Len(file.pages)
  /\ chapters' = PdfChapters(chapters, currentChapter)
  /\ \E now \in Clock :
       result' = WithId(PdfBook(file.name, Len(file.pages), allText, chapters'), now)
  /\ pc' = "returned"
  /\ UNCHANGED <<file, caller, canvases, calls, lines, i, currentChapter, paragraphId, chapterCount,
                 allText, thrown, upload, prev>>

(***************************************************************************)
(* parseEpubFile: the actions                                              *)
(***************************************************************************)
\* lines 280-311: the message of the Error thrown before the package document
\* is parsed, <<>> when none is
EpubOpenError(f) ==
  IF f.type # "zip" \/ ~f.zipOk THEN <<"C", "a", "n", "'", "t", " ", "f", "i", "n", "d", " ", "e", "n", "d", " ", "o", "f", " ", "c", "e", "n", "t", "r", "a", "l", " ", "d", "i", "r", "e", "c", "t", "o", "r", "y", " ", ":", " ", "i", "s", " ", "t", "h", "i", "s", " ", "a", " ", "z", "i", "p", " ", "f", "i", "l", "e", " ", "?">>
  ELSE IF HasEntry(f.zip, ContainerPath) /\ EntryData(f.zip, ContainerPath).kind = "corrupt"
  THEN <<"C", "o", "r", "r", "u", "p", "t", "e", "d", " ", "z", "i", "p", " ", ":", " ", "C", "R", "C", "3", "2", " ", "m", "i", "s", "m", "a", "t", "c", "h">>
  ELSE IF ~Readable(f.zip, ContainerPath)
  THEN <<"I", "n", "v", "a", "l", "i", "d", " ", "E", "P", "U", "B", ":", " ", "M", "E", "T", "A", "-", "I", "N", "F", "/", "c", "o", "n", "t", "a", "i", "n", "e", "r", ".", "x", "m", "l", " ", "n", "o", "t", " ", "f", "o", "u", "n", "d">>
  ELSE IF RootfilePath(f.zip) = <<>>
  THEN <<"I", "n", "v", "a", "l", "i", "d", " ", "E", "P", "U", "B", ":", " ", "r", "o", "o", "t", "f", "i", "l", "e", " ", "p", "a", "t", "h", " ", "n", "o", "t", " ", "f", "o", "u", "n", "d", " ", "i", "n", " ", "c", "o", "n", "t", "a", "i", "n", "e", "r", ".", "x", "m", "l">>
  ELSE IF HasEntry(f.zip, RootfilePath(f.zip)) /\ EntryData(f.zip, RootfilePath(f.zip)).kind = "corrupt"
  THEN <<"C", "o", "r", "r", "u", "p", "t", "e", "d", " ", "z", "i", "p", " ", ":", " ", "C", "R", "C", "3", "2", " ", "m", "i", "s", "m", "a", "t", "c", "h">>
  ELSE IF ~Readable(f.zip, RootfilePath(f.zip))
  THEN <<"I", "n", "v", "a", "l", "i", "d", " ", "E", "P", "U", "B", ":", " ", "c", "o", "n", "t", "e", "n", "t", ".", "o", "p", "f", " ", "n", "o", "t", " ", "f", "o", "u", "n", "d">>
  ELSE <<>>

\* the catch of line 735 with the message of what it caught dropped
EpubErrorUnknown(inner) == [message |-> "Failed to parse EPUB file: ", detail |-> <<"U", "n", "k", "n", "o", "w", "n", " ", "e", "r", "r", "o", "r">>]

\* lines 735-738: the catch of parseEpubFile rethrows with the message of what it caught
EpubError(inner) == [message |-> "Failed to parse EPUB file: ", detail |-> inner]

NoContent == <<"N", "o", " ", "r", "e", "a", "d", "a", "b", "l", "e", " ", "c", "o", "n", "t", "e", "n", "t", " ", "f", "o", "u", "n", "d", " ", "i", "n", " ", "E", "P", "U", "B", " ", "f", "i", "l", "e">>

\* lines 276-372: open the archive, read the container and the package
\* document, set up the locals
ParseEpubFile ==
  /\ pc = "parseEpubFile"
  /\ IF EpubOpenError(file) # <<>>
     THEN /\ CatchAndReturnNull(EpubError(EpubOpenError(file)))
          /\ UNCHANGED locals
     ELSE /\ chapters' = <<>>
          /\ paragraphId' = 0
          /\ allText' = <<>>
          /\ i' = 0
          /\ pc' = "epubLoop"
          /\ UNCHANGED <<lines, currentChapter, chapterCount, thrown, result>>
  /\ UNCHANGED <<file, caller, canvases, calls, upload, prev>>

\* the loop over the spine without the try of line 375: an Error raised by a
\* spine item reaches the catch of line 735
EpubSpineItemFailFast ==
  /\ pc = "epubLoop"
  /\ \E opf \in {OpfDoc(file.zip)}, basePath \in {BasePathOf(RootfilePath(file.zip))} :
       /\ i < Len(opf.spine)
       /\ IF SpineSkip(file.zip, opf, basePath, opf.spine[i + 1]) = "error"
          THEN /\ CatchAndReturnNull(EpubError(<<"C", "o", "r", "r", "u", "p", "t", "e", "d", " ", "z", "i", "p", " ", ":", " ", "C", "R", "C", "3", "2", " ", "m", "i", "s", "m", "a", "t", "c", "h">>))
               /\ UNCHANGED <<chapters, paragraphId, allText, i>>
          ELSE /\ i' = i + 1
               /\ UNCHANGED <<pc, thrown, result>>
               /\ IF SpineSkip(file.zip, opf, basePath, opf.spine[i + 1]) # ""
                  THEN UNCHANGED <<chapters, paragraphId, allText>>
                  ELSE \E doc \in {SpineDoc(file.zip, opf, basePath, opf.spine[i + 1])} :
                       \E paragraphs \in {Numbered(DocParagraphs(file.zip, basePath, doc), paragraphId)} :
                         /\ paragraphId' = paragraphId + Len(paragraphs)
                         /\ allText' = allText \o DocText(doc, StructuredParagraphs(file.zip, basePath, doc))
                         /\ chapters' = IF Len(paragraphs) > 0
                                        THEN Append(chapters, EpubChapter(chapters, ChapterTitle(doc), paragraphs))
                                        ELSE chapters
  /\ UNCHANGED <<file, caller, canvases, calls, lines, currentChapter, chapterCount, upload, prev>>

\* lines 374-686: one iteration of the loop over the spine
EpubSpineItem ==
  /\ pc = "epubLoop"
  /\ \E opf \in {OpfDoc(file.zip)}, basePath \in {BasePathOf(RootfilePath(file.zip))} :
       /\ i < Len(opf.spine)
       /\ IF SpineSkip(file.zip, opf, basePath, opf.spine[i + 1]) # ""
          THEN UNCHANGED <<chapters, paragraphId, allText>>
          ELSE \E doc \in {SpineDoc(file.zip, opf, basePath, opf.spine[i + 1])} :
               \E title \in {ChapterTitle(doc)},
                  structured \in {StructuredParagraphs(file.zip, basePath, doc)} :
               \E paragraphs \in {Numbered(IF structured # <<>> THEN structured
                                           ELSE FallbackParagraphs(HtmlToText(doc)), paragraphId)} :
                 /\ paragraphId' = paragraphId + Len(paragraphs)
                 /\ allText' = allText \o DocText(doc, structured)
                 /\ chapters' = IF Len(paragraphs) > 0
                                THEN Append(chapters, EpubChapter(chapters, title, paragraphs))
                                ELSE chapters
  /\ i' = i + 1
  /\ UNCHANGED <<file, caller, canvases, pc, calls, lines, currentChapter, chapterCount, thrown, result,
                 upload, prev>>

\* lines 696-717: the cover, the placeholder unless the cover file is read
EpubCover(zip, basePath, coverImagePath, title) ==
  IF /\ coverImagePath # <<>>
     /\ HasEntry(zip, basePath \o coverImagePath)
     /\ EntryData(zip, basePath \o coverImagePath).kind # "corrupt"
  THEN [kind |-> "data", path |-> basePath \o coverImagePath]
  ELSE PlaceholderCover(title)

\* lines 316-322 and 719-734: the Book of parseEpubFile
EpubBook(f, text, chs) ==
  LET opf == OpfDoc(f.zip)
      title == CleanMetadata(IF HasAttr(opf, "title") THEN opf.title ELSE StripExtension(f.name))
      description == CleanMetadata(IF HasAttr(opf, "description") THEN opf.description ELSE <<>>)
  IN  [ title |-> title,
        author |-> CleanMetadata(IF HasAttr(opf, "creator") THEN opf.creator ELSE <<"U", "n", "k", "n", "o", "w", "n", " ", "A", "u", "t", "h", "o", "r">>),
        cover |-> EpubCover(f.zip, BasePathOf(RootfilePath(f.zip)), CoverImagePath(opf), title),
        pages |-> Ceil(SumLen(chs), 3),
        language |-> DetectLanguage(text),
        synopsis |-> IF description # <<>> THEN description ELSE Substring0(text, 200) \o Ellipsis,
        chapters |-> chs ]

\* the return without the test of line 689
EpubReturnAlways ==
  /\ pc = "epubLoop"
  /\ i = Len(OpfDoc(file.zip).spine)
  /\ \E now \in Clock : result' = WithId(EpubBook(file, allText, chapters), now)
  /\ pc' = "returned"
  /\ UNCHANGED <<file, caller, canvases, calls, locals, thrown, upload, prev>>

\* lines 688-734: no chapter is an Error, else the Book is returned
EpubReturn ==
  /\ pc = "epubLoop"
  /\ i = Len(OpfDoc(file.zip).spine)
  /\ IF Len(chapters) = 0
     THEN CatchAndReturnNull(EpubError(NoContent))
     ELSE /\ \E now \in Clock : result' = WithId(EpubBook(file, allText, chapters), now)
          /\ pc' = "returned"
          /\ UNCHANGED thrown
  /\ UNCHANGED <<file, caller, canvases, calls, locals, upload, prev>>

(***************************************************************************)
(* BookUpload.processFile and validateBookFile                             *)
(***************************************************************************)
AllowedTypes == {<<"t", "x", "t">>, <<"p", "d", "f">>, <<"e", "p", "u", "b">>}

\* validateBookFile: the error it reports, "" when the file is valid
ValidateBookFile(f) ==
  IF Extension(f.name) \notin AllowedTypes
  THEN "Only TXT, PDF, and EPUB files are supported"
  ELSE IF f.size > 100 * 1024 * 1024
  THEN "File size must be less than 100MB"
  ELSE ""

\* lines 30-69 of processFile, up to the call of parseBookFile
ProcessFile ==
  /\ pc = "processFile"
  /\ IF Extension(file.name) = <<"j", "s", "o", "n">>
     THEN /\ pc' = "importBookFromJSON"
          /\ UNCHANGED upload
     ELSE IF ValidateBookFile(file) # ""
     THEN /\ toast' = [title |-> "Invalid file", description |-> ValidateBookFile(file)]
          /\ uploadStatus' = "error"
          /\ pc' = "rejected"
     ELSE /\ pc' = "parseBookFile"
          /\ UNCHANGED upload
  /\ UNCHANGED <<file, caller, canvases, calls, locals, thrown, result, prev>>

\* lines 73-107 of processFile, after parseBookFile has returned
ProcessFileResult ==
  /\ pc = "returned"
  /\ caller = "BookUpload"
  /\ IF ~IsBook(result)
     THEN /\ toast' = [title |-> "Upload failed",
                       description |-> "Failed to parse book file - no content extracted"]
          /\ uploadStatus' = "error"
     ELSE IF Len(result.chapters) = 0
     THEN /\ toast' = [title |-> "Upload failed", description |-> "No chapters found in the book"]
          /\ uploadStatus' = "error"
     ELSE /\ toast' = [title |-> "Book uploaded successfully!", description |-> ""]
          /\ uploadStatus' = "success"
  /\ pc' = "done"
  /\ UNCHANGED <<file, caller, canvases, calls, locals, thrown, result, prev>>

(***************************************************************************)
(* Specifications.                                                         *)
(***************************************************************************)
Next ==
  \/ ParseBookFile
  \/ ParseTxtFile
  \/ TxtLine
  \/ TxtReturn
  \/ ParsePdfFile
  \/ PdfPage
  \/ PdfReturn
  \/ ParseEpubFile
  \/ EpubSpineItem
  \/ EpubReturn
  \/ ProcessFile
  \/ ProcessFileResult

Spec == Init /\ [][Next]_vars

(***************************************************************************)
(* Calls that follow one another: the application parses a file, shows the *)
(* outcome, and is handed the next file.                                   *)
(***************************************************************************)
\* the call has ended for its caller
Final ==
  \/ pc \in {"done", "rejected", "importBookFromJSON"}
  \/ pc = "returned" /\ caller = "direct"

SeqFiles ==
  { TextFile(<<"b", "o", "o", "k", ".", "t", "x", "t">>, <<"C", "h", "a", "p", "t", "e", "r", " ", "O", "n", "e">> \o Newline \o <<"I", "t", " ", "w", "a", "s", " ", "r", "a", "i", "n", "i", "n", "g", ".">>),
    [name |-> <<"n", "o", "t", "e", "s", ".", "d", "o", "c">>, size |-> SmallSize, type |-> "text", text |-> <<"I", "t", " ", "w", "a", "s", " ", "r", "a", "i", "n", "i", "n", "g", ".">>],
    PdfFile(<<"L", "o", "c", "k", "e", "d", ".", "P", "D", "F">>, FALSE, <<>>),
    PdfFile(<<"s", "c", "a", "n", ".", "p", "d", "f">>, TRUE, <<FigurePage>>),
    EpubFile(<<"t", "a", "l", "e", ".", "e", "p", "u", "b">>, <<Entry(<<"m", "i", "m", "e", "t", "y", "p", "e">>, [kind |-> "other"])>>),
    EpubFile(<<"t", "a", "l", "e", ".", "e", "p", "u", "b">>, <<Container(<<"O", "E", "B", "P", "S", "/", "c", "o", "n", "t", "e", "n", "t", ".", "o", "p", "f">>)>>),
    SpineEpub(<<>>),
    CoverEpub(<<>>, <<>>) }

\* the caller makes its next call; what the call before left in the locals is
\* dead, each extractor creates its locals anew when it is entered
NextCall ==
  /\ Final
  /\ prev' = [file |-> file, thrown |-> thrown, result |-> result, toast |-> toast]
  /\ \E f \in SeqFiles, c \in Callers :
       /\ file' = f
       /\ caller' = c
       /\ pc' = IF c = "BookUpload" THEN "processFile" ELSE "parseBookFile"
  /\ calls' = <<>>
  /\ canvases' = 0
  /\ thrown' = NoError
  /\ result' = Null
  /\ uploadStatus' = "idle"
  /\ toast' = NoToast
  /\ UNCHANGED locals

InitSeq == InitOver(SeqFiles)

NextSeq ==
  \/ Next
  \/ NextCall

SpecSeq == InitSeq /\ [][NextSeq]_vars

(***************************************************************************)
(* Two calls in flight.  A call is suspended at an await and resumed when  *)
(* the promise settles; meanwhile the other call runs.  The variables hold *)
(* the frame of the call that runs, prev the frame of the suspended one.   *)
(***************************************************************************)
\* the frame of the running call
Frame ==
  [ file |-> file, caller |-> caller, pc |-> pc, calls |-> calls, lines |-> lines, i |-> i,
    chapters |-> chapters, currentChapter |-> currentChapter, paragraphId |-> paragraphId,
    chapterCount |-> chapterCount, allText |-> allText, canvases |-> canvases,
    thrown |-> thrown, result |-> result,
    uploadStatus |-> uploadStatus, toast |-> toast ]

\* the frame of a call that has not taken a step
FrameOf(f, c) ==
  [ file |-> f, caller |-> c, pc |-> IF c = "BookUpload" THEN "processFile" ELSE "parseBookFile",
    calls |-> <<>>, lines |-> <<>>, i |-> 0, chapters |-> <<>>,
    currentChapter |-> NewChapter(1, ChapterN(1)), paragraphId |-> 0, chapterCount |-> 1,
    allText |-> <<>>, canvases |-> 0, thrown |-> NoError, result |-> Null,
    uploadStatus |-> "idle",
    toast |-> NoToast ]

FrameFinal(fr) ==
  \/ fr.pc \in {"done", "rejected", "importBookFromJSON"}
  \/ fr.pc = "returned" /\ fr.caller = "direct"

ParFiles ==
  { TextFile(<<"b", "o", "o", "k", ".", "t", "x", "t">>, <<"C", "h", "a", "p", "t", "e", "r", " ", "O", "n", "e">> \o Newline \o <<"I", "t", " ", "w", "a", "s", " ", "r", "a", "i", "n", "i", "n", "g", ".">> \o Newline
                            \o <<"C", "h", "a", "p", "t", "e", "r", " ", "T", "w", "o">> \o Newline \o <<"A", " ", "1", "5", "-", "c", "h", "a", "r", " ", "t", "i", "t", "l", "e">>),
    PdfFile(<<"s", "c", "a", "n", ".", "p", "d", "f">>, TRUE, <<PlainPage, FigurePage>>),
    SpineEpub(<< SpineSample([idref |-> <<"c", "h", "1">>], <<Item(<<"c", "h", "1">>, <<"t", "e", "x", "t", "/", "c", "h", "1", ".", "x", "h", "t", "m", "l">>, Xhtml)>>,
                             <<Entry(<<"O", "E", "B", "P", "S", "/", "t", "e", "x", "t", "/", "c", "h", "1", ".", "x", "h", "t", "m", "l">>, Html(GoodDoc))>>),
                 SpineSample([idref |-> <<"c", "h", "6">>], <<Item(<<"c", "h", "6">>, <<"t", "e", "x", "t", "/", "c", "h", "6", ".", "x", "h", "t", "m", "l">>, Xhtml)>>,
                             <<Entry(<<"O", "E", "B", "P", "S", "/", "t", "e", "x", "t", "/", "c", "h", "6", ".", "x", "h", "t", "m", "l">>, Html(PictureDoc(<<".", ".", "/", "i", "m", "a", "g", "e", "s", "/", "p", "i", "c", ".", "p", "n", "g">>))),
                               Entry(<<"O", "E", "B", "P", "S", "/", "i", "m", "a", "g", "e", "s", "/", "p", "i", "c", ".", "p", "n", "g">>, Image)>>) >>) }

\* the other call is resumed, with paragraphId a counter of the module that
\* the calls share
ResumeSharingCounter ==
  /\ "pc" \in DOMAIN prev
  /\ ~FrameFinal(prev)
  /\ prev' = Frame
  /\ file' = prev.file
  /\ caller' = prev.caller
  /\ pc' = prev.pc
  /\ calls' = prev.calls
  /\ lines' = prev.lines
  /\ i' = prev.i
  /\ chapters' = prev.chapters
  /\ currentChapter' = prev.currentChapter
  /\ UNCHANGED paragraphId
  /\ chapterCount' = prev.chapterCount
  /\ allText' = prev.allText
  /\ canvases' = prev.canvases
  /\ thrown' = prev.thrown
  /\ result' = prev.result
  /\ uploadStatus' = prev.uploadStatus
  /\ toast' = prev.toast

\* the running call is suspended at an await and the other call is resumed;
\* every local belongs to the closure of its own call
Resume ==
  /\ "pc" \in DOMAIN prev
  /\ ~FrameFinal(prev)
  /\ prev' = Frame
  /\ file' = prev.file
  /\ caller' = prev.caller
  /\ pc' = prev.pc
  /\ calls' = prev.calls
  /\ lines' = prev.lines
  /\ i' = prev.i
  /\ chapters' = prev.chapters
  /\ currentChapter' = prev.currentChapter
  /\ paragraphId' = prev.paragraphId
  /\ chapterCount' = prev.chapterCount
  /\ allText' = prev.allText
  /\ canvases' = prev.canvases
  /\ thrown' = prev.thrown
  /\ result' = prev.result
  /\ uploadStatus' = prev.uploadStatus
  /\ toast' = prev.toast

InitPar ==
  \E f, g \in ParFiles, c, d \in Callers :
    /\ f # g
    /\ Begin(f, c)
    /\ prev = FrameOf(g, d)

NextPar ==
  \/ Next
  \/ Resume

SpecPar == InitPar /\ [][NextPar]_vars

(***************************************************************************)
(* Properties                                                              *)
(***************************************************************************)
\* parseBookFile has returned to its caller
Returned == pc \in {"returned", "done"}

\* the paragraphs of a sequence of chapters, as a set
ParagraphsOf(chs) == {chs[k].paragraphs[j] : <<k, j>> \in {<<k, j>> \in (1..Len(chs)) \X (1..12) : j <= Len(chs[k].paragraphs)}}

\* the name, in lower case, is ext or ends with "." and ext
NamedWith(name, ext) == ToLowerCase(name) = ext \/ EndsWith(ToLowerCase(name), <<".">> \o ext)

ExpectedExtractor(name) ==
  IF NamedWith(name, <<"t", "x", "t">>) THEN "parseTxtFile"
  ELSE IF NamedWith(name, <<"p", "d", "f">>) THEN "parsePdfFile"
  ELSE IF NamedWith(name, <<"e", "p", "u", "b">>) THEN "parseEpubFile"
  ELSE "none"

\* C1: parseBookFile calls at most one extractor, the one its lower-cased
\* extension names (txt, pdf, epub); for any other extension it calls none,
\* touches no extractor state, and returns at once without a Book.
C1_Dispatch ==
  /\ Len(calls) <= 1
  /\ calls # <<>> => calls[1] = ExpectedExtractor(file.name)
  /\ Returned =>
       IF ExpectedExtractor(file.name) = "none"
       THEN /\ calls = <<>>
            /\ result = Null
            /\ thrown.message = "Unsupported file format: "
            /\ lines = <<>> /\ chapters = <<>> /\ paragraphId = 0 /\ i = 0
       ELSE calls = <<ExpectedExtractor(file.name)>>

C1_Witness ==
  pc = "returned" /\ file.name = <<"b", "o", "o", "k", ".", "t", "x", "t", ".", "b", "a", "k">> /\ calls = <<>> /\ result = Null

\* the failure classes of the error taxonomy, read off the Error that was thrown
FailureKind(t) ==
  IF t.message = "Unsupported file format: " THEN "UnsupportedFormat"
  ELSE IF t.message = PdfError.message THEN "CorruptOrProtectedSource"
  ELSE IF t.message = "Failed to parse EPUB file: "
  THEN IF t.detail = NoContent THEN "NoReadableContent"
       ELSE IF StartsWith(t.detail, <<"I", "n", "v", "a", "l", "i", "d", " ", "E", "P", "U", "B">>) THEN "MalformedContainer"
       ELSE "other"
  ELSE "none"

TypedKinds ==
  {"UnsupportedFormat", "MalformedContainer", "NoReadableContent", "CorruptOrProtectedSource"}

\* C2: two calls that fail for different classes of the taxonomy (unsupported
\* extension, malformed EPUB container, EPUB without readable content,
\* unopenable PDF) end in outcomes their caller can tell apart: the value
\* parseBookFile returned or the message shown differs.
C2_TypedFailures ==
  ( /\ Final
    /\ "none" \notin DOMAIN prev
    /\ FailureKind(thrown) \in TypedKinds
    /\ FailureKind(prev.thrown) \in TypedKinds
    /\ FailureKind(thrown) # FailureKind(prev.thrown) )
    => (result # prev.result \/ toast # prev.toast)

\* C3 as stated: no returned Book has zero chapters or zero paragraphs overall.
C3_NoEmptyBook ==
  (Returned /\ IsBook(result)) => (Len(result.chapters) > 0 /\ SumLen(result.chapters) > 0)

\* C3 as amended: when no paragraph at all was recovered, only parseEpubFile
\* ends in the "no readable content" failure and no returned EPUB Book is
\* without chapters or paragraphs; parseTxtFile returns a Book with no
\* chapter; parsePdfFile never ends in that failure, and the Book it returns
\* has exactly one chapter, ch1, that holds no paragraph.
C3_EmptyContent ==
  Returned =>
    /\ calls = <<"parseEpubFile">> =>
         /\ IsBook(result) => (Len(result.chapters) > 0 /\ SumLen(result.chapters) > 0)
         /\ (EpubOpenError(file) = <<>> /\ paragraphId = 0) =>
              (~IsBook(result) /\ thrown = EpubError(NoContent))
    /\ (calls = <<"parseTxtFile">> /\ paragraphId = 0) =>
         (IsBook(result) /\ result.chapters = <<>>)
    /\ calls = <<"parsePdfFile">> =>
         /\ FailureKind(thrown) # "NoReadableContent"
         /\ (paragraphId = 0 /\ IsBook(result)) =>
              /\ Len(result.chapters) = 1
              /\ result.chapters[1].id = <<"c", "h", "1">>
              /\ result.chapters[1].paragraphs = <<>>

C3_Witness ==
  /\ pc = "returned"
  /\ calls = <<"parseEpubFile">>
  /\ EpubOpenError(file) = <<>>
  /\ Len(OpfDoc(file.zip).spine) = 2
  /\ paragraphId = 0
  /\ thrown = EpubError(NoContent)
  /\ result = Null

\* C4: after any extractor has recovered at least one paragraph, the call
\* returns a Book; the Book has a chapter, has a paragraph in every chapter
\* (also after a marker or a forced split), and has pages >= 1.
C4_BookShape ==
  (Returned /\ calls # <<>> /\ paragraphId >= 1) =>
    /\ IsBook(result)
    /\ Len(result.chapters) >= 1
    /\ \A k \in 1..Len(result.chapters) : Len(result.chapters[k].paragraphs) >= 1
    /\ result.pages >= 1

\* C5: a text whose first non-blank line is a marker line and whose other
\* lines are not markers yields exactly one chapter, titled with the marker line.
C5_MarkerTitle ==
  ( /\ pc = "returned"
    /\ calls = <<"parseTxtFile">>
    /\ Len(lines) >= 2
    /\ IsChapterTitle(Trim(lines[1]))
    /\ \A k \in 2..Len(lines) : ~IsChapterTitle(Trim(lines[k])) )
    => /\ Len(result.chapters) = 1
       /\ result.chapters[1].title = Trim(lines[1])
       /\ result.chapters[1].paragraphs # <<>>

\* the heading rule of the TXT extractor, as the specification words it
HeadingByRule(t) == Len(t) > 10 /\ Len(t) < 100 /\ t[Len(t)] \notin {".", "!", "?"}

\* C6: in parseTxtFile a line is a heading (of level 3) exactly when its
\* trimmed length is strictly between 10 and 100 and it does not end in '.',
\* '!' or '?'; every non-marker line becomes a paragraph, plain otherwise.
C6_HeadingRule ==
  calls = <<"parseTxtFile">> =>
    /\ \A p \in ParagraphsOf(Append(chapters, currentChapter)) :
         /\ p.isHeading <=> HeadingByRule(p.text)
         /\ p.isHeading <=> "headingLevel" \in DOMAIN p
         /\ p.isHeading => p.headingLevel = 3
    /\ pc = "returned" =>
         \A k \in 1..Len(lines) :
           ~IsChapterTitle(Trim(lines[k])) =>
             \E p \in ParagraphsOf(result.chapters) : p.text = Trim(lines[k])

C6_Witness ==
  /\ pc = "returned"
  /\ calls = <<"parseTxtFile">>
  /\ \E p, q \in ParagraphsOf(result.chapters) :
       /\ Len(p.text) = 15 /\ p.isHeading
       /\ Len(q.text) = 15 /\ Last(q.text) = "." /\ ~q.isHeading

\* the next page of the loop has extracted text shorter than 100 characters
ShortTextPage ==
  /\ pc = "pdfLoop"
  /\ i <= Len(file.pages)
  /\ file.pages[i].load = "ok"
  /\ Len(PdfPageText(file.pages[i])) < 100

\* C7: a PDF page whose text is shorter than 100 characters adds no text
\* paragraph and, when it is rendered, exactly one image paragraph "Page i";
\* when rendering fails it adds nothing, and in both cases the parse goes on
\* to the next page.
C7_ShortPage ==
  [][ShortTextPage =>
       /\ pc' = "pdfLoop" /\ i' = i + 1 /\ thrown' = NoError /\ result' = Null
       /\ chapters' = chapters /\ chapterCount' = chapterCount
       /\ IF file.pages[i].render = "ok"
          THEN /\ Len(currentChapter'.paragraphs) = Len(currentChapter.paragraphs) + 1
               /\ SubSeq(currentChapter'.paragraphs, 1, Len(currentChapter.paragraphs))
                    = currentChapter.paragraphs
               /\ "isImage" \in DOMAIN Last(currentChapter'.paragraphs)
               /\ Last(currentChapter'.paragraphs).isImage
               /\ Last(currentChapter'.paragraphs).imageUrl = [kind |-> "canvas", page |-> i]
               /\ Last(currentChapter'.paragraphs).text = <<"P", "a", "g", "e", " ">> \o NumToString(i)
          ELSE currentChapter' = currentChapter]_vars

\* page 1 (50 characters) failed to render and was skipped, page 2 was rendered
C7_Witness ==
  /\ pc = "pdfLoop"
  /\ i = 3
  /\ Len(PdfPageText(file.pages[1])) = 50 /\ file.pages[1].render = "throws"
  /\ file.pages[2] = FigurePage
  /\ Len(currentChapter.paragraphs) = 1
  /\ currentChapter.paragraphs[1].isImage
  /\ currentChapter.paragraphs[1].text = <<"P", "a", "g", "e", " ", "2">>

\* the cover reference by the priority of the specification: the first item
\* with the cover-image property, else the first item whose id contains
\* "cover", else the item <meta name="cover"> names
ClaimedCover(opf) ==
  LET usable == {k \in 1..Len(opf.manifest) :
                   HasAttr(opf.manifest[k], "id") /\ HasAttr(opf.manifest[k], "href")}
      byProperty == {k \in usable : "properties" \in DOMAIN opf.manifest[k]
                                      /\ opf.manifest[k].properties = <<"c", "o", "v", "e", "r", "-", "i", "m", "a", "g", "e">>}
      byId == {k \in usable : Includes(opf.manifest[k].id, <<"c", "o", "v", "e", "r">>)}
      First(S) == CHOOSE k \in S : \A m \in S : k <= m
  IN  IF byProperty # {} THEN opf.manifest[First(byProperty)].href
      ELSE IF byId # {} THEN opf.manifest[First(byId)].href
      ELSE IF HasAttr(opf, "coverMeta") /\ ManifestHas(opf, opf.coverMeta)
      THEN ManifestGet(opf, opf.coverMeta)
      ELSE <<>>

\* C8: the cover of a returned EPUB Book is the manifest entry chosen by the
\* priority cover-image property, then id containing "cover", then
\* <meta name="cover">, whatever the order and content of the other items.
C8_CoverPriority ==
  ( /\ pc = "returned"
    /\ calls = <<"parseEpubFile">>
    /\ IsBook(result)
    /\ ClaimedCover(OpfDoc(file.zip)) # <<>>
    /\ HasEntry(file.zip, BasePathOf(RootfilePath(file.zip)) \o ClaimedCover(OpfDoc(file.zip))) )
    => result.cover = [kind |-> "data",
                       path |-> BasePathOf(RootfilePath(file.zip)) \o ClaimedCover(OpfDoc(file.zip))]

DocPath == <<"O", "E", "B", "P", "S", "/", "t", "e", "x", "t", "/", "c", "h", "1", ".", "x", "h", "t", "m", "l">>

AssetPath == <<"O", "E", "B", "P", "S", "/", "i", "m", "a", "g", "e", "s", "/", "p", "i", "c", ".", "p", "n", "g">>

ParentSrc == <<".", ".", "/", "i", "m", "a", "g", "e", "s", "/", "p", "i", "c", ".", "p", "n", "g">>

\* the archive holds the content document OEBPS/text/ch1.xhtml with
\* <img src="../images/pic.png">, its only spine item, and the asset
\* OEBPS/images/pic.png
ParentReference ==
  /\ file.type = "zip"
  /\ EpubOpenError(file) = <<>>
  /\ HasEntry(file.zip, DocPath)
  /\ EntryData(file.zip, DocPath) = Html(PictureDoc(ParentSrc))
  /\ HasEntry(file.zip, AssetPath)
  /\ EntryData(file.zip, AssetPath) = Image
  /\ Len(OpfDoc(file.zip).spine) = 1
  /\ SpineSkip(file.zip, OpfDoc(file.zip), BasePathOf(RootfilePath(file.zip)),
               OpfDoc(file.zip).spine[1]) = ""
  /\ BasePathOf(RootfilePath(file.zip)) \o ManifestGet(OpfDoc(file.zip), OpfDoc(file.zip).spine[1].idref)
       = DocPath

\* C9: that image is emitted as an image paragraph of the asset, and the
\* candidate path that hits is the src resolved against the directory of the
\* referencing document, OEBPS/text.
C9_ParentDirectory ==
  (pc = "returned" /\ calls = <<"parseEpubFile">> /\ ParentReference) =>
    LET paths == PossiblePaths(file.zip, BasePathOf(RootfilePath(file.zip)), ParentSrc)
    IN  /\ IsBook(result)
        /\ \E p \in ParagraphsOf(result.chapters) :
             "isImage" \in DOMAIN p /\ p.imageUrl = [kind |-> "data", path |-> AssetPath]
        /\ FirstHit(file.zip, paths) = 2
        /\ paths[2] = ResolvePath(<<"O", "E", "B", "P", "S", "/", "t", "e", "x", "t">>, ParentSrc)

\* spine item k names a content document that can be read and has paragraphs
Yields(f, k) ==
  LET opf == OpfDoc(f.zip)
      base == BasePathOf(RootfilePath(f.zip))
      ref == opf.spine[k]
  IN  /\ HasAttr(ref, "idref")
      /\ ManifestHas(opf, ref.idref)
      /\ HasEntry(f.zip, base \o ManifestGet(opf, ref.idref))
      /\ EntryData(f.zip, base \o ManifestGet(opf, ref.idref)).kind = "html"
      /\ DocParagraphs(f.zip, base, EntryData(f.zip, base \o ManifestGet(opf, ref.idref)).doc) # <<>>

\* C10: a spine item without manifest href, with an absent content file, that
\* raises, or that has no paragraph adds no chapter and does not end the
\* parse; the Book is returned when some spine item has content and holds one
\* chapter for each such item; the "no readable content" Error is raised only
\* when none has.
C10_SpineSkips ==
  (calls = <<"parseEpubFile">> /\ EpubOpenError(file) = <<>> /\ pc # "parseEpubFile") =>
    LET seen == IF pc = "epubLoop" THEN i ELSE Len(OpfDoc(file.zip).spine)
        yielded == {k \in 1..seen : Yields(file, k)}
    IN  /\ Len(chapters) = Cardinality(yielded)
        /\ pc = "epubLoop" => (thrown = NoError /\ result = Null)
        /\ pc # "epubLoop" =>
             IF yielded # {}
             THEN IsBook(result) /\ Len(result.chapters) = Cardinality(yielded)
             ELSE ~IsBook(result) /\ thrown = EpubError(NoContent)

\* of two spine items, the content file of the first is absent and the second has content
C10_Witness ==
  /\ pc = "returned"
  /\ calls = <<"parseEpubFile">>
  /\ EpubOpenError(file) = <<>>
  /\ Len(OpfDoc(file.zip).spine) = 2
  /\ SpineSkip(file.zip, OpfDoc(file.zip), BasePathOf(RootfilePath(file.zip)),
               OpfDoc(file.zip).spine[1]) = "file not found"
  /\ IsBook(result)
  /\ Len(result.chapters) = 1

\* a paragraph reduced to its text and kind
TextAndKind(p) ==
  [ text |-> p.text,
    kind |-> IF "isImage" \in DOMAIN p /\ p.isImage THEN "image"
             ELSE IF "isHeading" \in DOMAIN p /\ p.isHeading THEN "heading" ELSE "plain",
    level |-> IF "headingLevel" \in DOMAIN p THEN p.headingLevel ELSE 0 ]

\* the chapter titles of a Book and, per chapter, the texts and kinds of its paragraphs
Structure(book) ==
  [k \in 1..Len(book.chapters) |->
     [ title |-> book.chapters[k].title,
       paragraphs |-> [j \in 1..Len(book.chapters[k].paragraphs) |->
                         TextAndKind(book.chapters[k].paragraphs[j])] ]]

\* the call before this one was made with the same file
SameFileAgain == Final /\ "file" \in DOMAIN prev /\ prev.file = file

\* C11: two parses of the same file return Books with the same chapter titles
\* and the same paragraph texts and kinds, or both return none; the Books
\* differ in nothing but their id.
C11_Deterministic ==
  SameFileAgain =>
    /\ IsBook(result) <=> IsBook(prev.result)
    /\ IsBook(result) =>
         /\ Structure(result) = Structure(prev.result)
         /\ WithId(result, 0) = WithId(prev.result, 0)

C11_Witness ==
  /\ SameFileAgain
  /\ IsBook(result) /\ IsBook(prev.result)
  /\ result.id # prev.result.id
  /\ Len(result.chapters) = 1
  /\ Len(result.chapters[1].paragraphs) = 2

Kana == {"U+3042", "U+3044", "U+30A2", "U+30A4"}

Hangul == {"U+D55C", "U+AE00"}

\* the characters the specification counts: ideographs, Hiragana/Katakana, Hangul
CJKRange == CJKIdeographs \cup Kana \cup Hangul

\* C12: the language of a Book is the CJK family exactly when the CJK-range
\* characters of its text, ideographs, Hiragana/Katakana and Hangul alike, are
\* more than 30% of its non-whitespace characters.
C12_LanguageFamily ==
  (pc = "returned" /\ calls = <<"parseTxtFile">> /\ IsBook(result)) =>
    (result.language = <<"C", "h", "i", "n", "e", "s", "e">>
       <=> 10 * CountIn(file.text, CJKRange)
             > 3 * (Len(file.text) - CountIn(file.text, Whitespace)))

\* the archive can be read but has no META-INF/container.xml, or its container
\* names no rootfile path, or no entry is stored at that path
NoPackageDocument ==
  /\ file.type = "zip" /\ file.zipOk
  /\ \/ ~HasEntry(file.zip, ContainerPath)
     \/ /\ HasEntry(file.zip, ContainerPath)
        /\ EntryData(file.zip, ContainerPath).kind = "container"
        /\ \/ "rootfile" \notin DOMAIN EntryData(file.zip, ContainerPath)
           \/ ~HasEntry(file.zip, EntryData(file.zip, ContainerPath).rootfile)

\* C13: for such an archive parseEpubFile throws an "Invalid EPUB" Error
\* before the loop over the spine is entered, and no Book is returned.
C13_InvalidContainer ==
  (calls = <<"parseEpubFile">> /\ NoPackageDocument) =>
    /\ pc # "epubLoop"
    /\ chapters = <<>> /\ paragraphId = 0 /\ i = 0
    /\ Returned =>
         /\ result = Null
         /\ thrown.message = "Failed to parse EPUB file: "
         /\ StartsWith(thrown.detail, <<"I", "n", "v", "a", "l", "i", "d", " ", "E", "P", "U", "B", ":", " ">>)

C13_Witness ==
  /\ pc = "returned"
  /\ calls = <<"parseEpubFile">>
  /\ NoPackageDocument
  /\ HasEntry(file.zip, ContainerPath)
  /\ thrown = EpubError(<<"I", "n", "v", "a", "l", "i", "d", " ", "E", "P", "U", "B", ":", " ", "c", "o", "n", "t", "e", "n", "t", ".", "o", "p", "f", " ", "n", "o", "t", " ", "f", "o", "u", "n", "d">>)
  /\ result = Null

\* the chapters built so far: those of the Book once it is returned, otherwise
\* the chapters pushed and, in parseTxtFile and parsePdfFile, the running one
ChaptersSoFar ==
  IF Returned /\ IsBook(result) THEN result.chapters
  ELSE IF calls = <<"parseEpubFile">> \/ Returned THEN chapters
  ELSE Append(chapters, currentChapter)

\* the paragraphs of a sequence of chapters, in order
RECURSIVE AllParagraphs(_)
AllParagraphs(chs) ==
  IF chs = <<>> THEN <<>> ELSE Head(chs).paragraphs \o AllParagraphs(Tail(chs))

DistinctIds(seq) == \A j, k \in 1..Len(seq) : j # k => seq[j].id # seq[k].id

\* C14: chapter ids are pairwise distinct in a book and paragraph ids are
\* pairwise distinct in a chapter, and indeed in the whole book: every
\* paragraph id was issued below the present value of the counter, and the
\* counters of a parse never decrease.
C14_UniqueIds ==
  /\ [](calls # <<>> =>
          /\ DistinctIds(ChaptersSoFar)
          /\ \A k \in 1..Len(ChaptersSoFar) : DistinctIds(ChaptersSoFar[k].paragraphs)
          /\ DistinctIds(AllParagraphs(ChaptersSoFar))
          /\ \A k \in 1..Len(AllParagraphs(ChaptersSoFar)) :
               \E n \in 0..(paragraphId - 1) :
                 AllParagraphs(ChaptersSoFar)[k].id = ParagraphIdOf(n))
  /\ [][paragraphId' >= paragraphId /\ chapterCount' >= chapterCount]_vars

\* 11 pages of two paragraphs each: the forced split after page 10 starts ch2,
\* whose first paragraph is the 21st of the book
C14_Witness ==
  /\ pc = "returned"
  /\ calls = <<"parsePdfFile">>
  /\ IsBook(result)
  /\ Len(result.chapters) = 2
  /\ result.chapters[2].id = <<"c", "h", "2">>
  /\ Len(result.chapters[1].paragraphs) = 20
  /\ result.chapters[2].paragraphs[1].id = <<"p", "2", "0">>

Flagged(p, field) == field \in DOMAIN p /\ p[field]

\* an image paragraph: an image payload, no heading flag or level, and as
\* text the alt text, "Image", or "Page N"
IsImageKind(p) ==
  /\ Flagged(p, "isImage")
  /\ "imageUrl" \in DOMAIN p
  /\ ~Flagged(p, "isHeading")
  /\ "headingLevel" \notin DOMAIN p
  /\ \/ p.imageUrl.kind = "data" /\ p.text = (IF p.imageAlt # <<>> THEN p.imageAlt ELSE <<"I", "m", "a", "g", "e">>)
     \/ p.imageUrl.kind = "canvas" /\ p.text = <<"P", "a", "g", "e", " ">> \o NumToString(p.imageUrl.page)

IsHeadingKind(p) ==
  /\ Flagged(p, "isHeading")
  /\ "headingLevel" \in DOMAIN p /\ p.headingLevel \in 1..6
  /\ "isImage" \notin DOMAIN p /\ "imageUrl" \notin DOMAIN p

IsPlainKind(p) ==
  /\ ~Flagged(p, "isHeading")
  /\ "headingLevel" \notin DOMAIN p
  /\ "isImage" \notin DOMAIN p /\ "imageUrl" \notin DOMAIN p

\* C15: every paragraph is of exactly one kind: an image paragraph with its
\* payload, no heading flag and a label as text; a heading with a level in
\* 1..6 and no payload; or a plain paragraph with neither.
C15_ParagraphKinds ==
  calls # <<>> =>
    \A k \in 1..Len(AllParagraphs(ChaptersSoFar)) :
      LET p == AllParagraphs(ChaptersSoFar)[k]
      IN  Cardinality({kind \in {"image", "heading", "plain"} :
                         \/ kind = "image" /\ IsImageKind(p)
                         \/ kind = "heading" /\ IsHeadingKind(p)
                         \/ kind = "plain" /\ IsPlainKind(p)}) = 1

\* a chapter that begins with the image of its document, followed by a plain paragraph
C15_Witness ==
  /\ pc = "returned"
  /\ calls = <<"parseEpubFile">>
  /\ IsBook(result)
  /\ Len(result.chapters[1].paragraphs) = 2
  /\ IsImageKind(result.chapters[1].paragraphs[1])
  /\ result.chapters[1].paragraphs[1].text = <<"A", " ", "p", "i", "c", "t", "u", "r", "e">>
  /\ IsPlainKind(result.chapters[1].paragraphs[2])

\* What a call returns when it runs alone: the steps of its extractor, one
\* after the other.
AloneTxtLine(st, line) ==
  IF IsChapterTitle(line) /\ Len(st.currentChapter.paragraphs) > 0
  THEN [st EXCEPT !.chapters = Append(@, st.currentChapter),
                  !.chapterCount = @ + 1,
                  !.currentChapter = NewChapter(st.chapterCount + 1, line)]
  ELSE IF Len(line) > 0
  THEN [st EXCEPT !.currentChapter = AddParagraph(@, TxtParagraph(st.paragraphId, line)),
                  !.paragraphId = @ + 1]
  ELSE st

RECURSIVE AloneTxt(_, _)
AloneTxt(st, ls) ==
  IF ls = <<>> THEN st ELSE AloneTxt(AloneTxtLine(st, Trim(Head(ls))), Tail(ls))

RECURSIVE AlonePdf(_, _, _)
AlonePdf(st, pages, n) ==
  IF n > Len(pages) THEN st ELSE AlonePdf(PdfPageStep(st, n, pages[n]), pages, n + 1)

AloneSpineItem(st, f, itemref) ==
  LET opf == OpfDoc(f.zip)
      basePath == BasePathOf(RootfilePath(f.zip))
  IN  IF SpineSkip(f.zip, opf, basePath, itemref) # "" THEN st
      ELSE LET doc == SpineDoc(f.zip, opf, basePath, itemref)
               paragraphs == Numbered(DocParagraphs(f.zip, basePath, doc), st.paragraphId)
           IN  [ paragraphId |-> st.paragraphId + Len(paragraphs),
                 allText |-> st.allText \o DocText(doc, StructuredParagraphs(f.zip, basePath, doc)),
                 chapters |-> IF Len(paragraphs) > 0
                              THEN Append(st.chapters,
                                          EpubChapter(st.chapters, ChapterTitle(doc), paragraphs))
                              ELSE st.chapters ]

RECURSIVE AloneEpub(_, _, _)
AloneEpub(st, f, spine) ==
  IF spine = <<>> THEN st ELSE AloneEpub(AloneSpineItem(st, f, Head(spine)), f, Tail(spine))

FirstLocals ==
  [ chapters |-> <<>>, currentChapter |-> NewChapter(1, ChapterN(1)), paragraphId |-> 0,
    chapterCount |-> 1 ]

\* the Book of a file of ParFiles parsed alone, but for its id
Alone(f) ==
  IF f.type = "text"
  THEN LET st == AloneTxt(FirstLocals, SelectSeq(Split(f.text, "\n"), NonBlank))
       IN  TxtBook(f.name, f.text, WithLastChapter(st.chapters, st.currentChapter))
  ELSE IF f.type = "pdf"
  THEN LET st == AlonePdf(FirstLocals, f.pages, 1)
       IN  PdfBook(f.name, Len(f.pages),
                   Concat([k \in 1..Len(f.pages) |-> PdfPageText(f.pages[k]) \o Newline]),
                   PdfChapters(st.chapters, st.currentChapter))
  ELSE LET st == AloneEpub([chapters |-> <<>>, paragraphId |-> 0, allText |-> <<>>], f,
                           OpfDoc(f.zip).spine)
       IN  EpubBook(f, st.allText, st.chapters)

SameButId(book, other) == IsBook(book) /\ [id |-> <<>>] @@ book = [id |-> <<>>] @@ other

\* C16: of two calls on different files whose steps interleave in any order,
\* each returns the Book it returns when it runs alone: the same chapters,
\* paragraph texts, kinds and ids.
C16_NoSharedState ==
  /\ Returned => SameButId(result, Alone(file))
  /\ ("pc" \in DOMAIN prev /\ prev.pc \in {"returned", "done"}) =>
       SameButId(prev.result, Alone(prev.file))

\* the EPUB call has returned while the TXT call, begun meanwhile, is in its loop
C16_Witness ==
  /\ pc = "returned"
  /\ calls = <<"parseEpubFile">>
  /\ Len(result.chapters) = 2
  /\ result.chapters[2].paragraphs[1].id = <<"p", "4">>
  /\ prev.pc = "txtLoop"
  /\ prev.i = 3
  /\ prev.paragraphId = 2
  /\ prev.chapterCount = 2

\* C17: the cover reference of an EPUB is resolved as the src of an in-body
\* image is: the cover is the data of the first candidate path the archive
\* holds, and the placeholder exactly when no candidate is held or no cover is
\* referenced; the cover is never empty.
C17_CoverResolution ==
  (pc = "returned" /\ calls = <<"parseEpubFile">> /\ IsBook(result)) =>
    LET basePath == BasePathOf(RootfilePath(file.zip))
        ref == CoverImagePath(OpfDoc(file.zip))
        paths == PossiblePaths(file.zip, basePath, ref)
    IN  /\ result.cover.kind \in {"data", "placeholder"}
        /\ result.cover.kind = "placeholder" => result.cover = PlaceholderCover(result.title)
        /\ result.cover.kind = "data" <=> (ref # <<>> /\ FirstHit(file.zip, paths) # 0)
        /\ result.cover.kind = "data" =>
             result.cover.path = CleanPath(paths[FirstHit(file.zip, paths)])

\* C18: the Book of parseTxtFile has pages = ceil(totalParagraphs / 3), the
\* paragraphs counted over its chapters, and as synopsis the first 200
\* characters of the text.
C18_PagesAndSynopsis ==
  (pc = "returned" /\ calls = <<"parseTxtFile">>) =>
    /\ IsBook(result)
    /\ \E n \in 0..Len(AllParagraphs(result.chapters)) :
         /\ result.pages = n
         /\ 3 * n >= Len(AllParagraphs(result.chapters))
         /\ 3 * (n - 1) < Len(AllParagraphs(result.chapters))
    /\ result.synopsis = SubSeq(file.text, 1, IF Len(file.text) < 200 THEN Len(file.text) ELSE 200)

\* the pieces of the text pages of a PDF that have 20 characters or more
KeptBySpecification(pages) ==
  LET AtLeast20(c) == Len(Trim(c)) >= 20
  IN  Concat([n \in 1..Len(pages) |->
                IF Len(Trim(PdfPageText(pages[n]))) < 100 THEN <<>>
                ELSE SelectSeq(PdfPieces(PdfPageText(pages[n])), AtLeast20)])

\* C19: on the text pages of a PDF a piece is dropped exactly when it is
\* shorter than 20 characters: every piece of 20 characters or more is in the
\* Book as the text of a paragraph or the title of a chapter, no shorter piece
\* is, and a piece becomes a chapter title only if it matches the marker
\* pattern and is shorter than 100 characters.
C19_CandidateFilter ==
  (pc = "returned" /\ calls = <<"parsePdfFile">> /\ IsBook(result) /\ Len(file.pages) < 10) =>
    /\ \A k \in 1..Len(KeptBySpecification(file.pages)) :
         LET c == Trim(KeptBySpecification(file.pages)[k])
         IN  \/ \E j \in 1..Len(AllParagraphs(result.chapters)) :
                  AllParagraphs(result.chapters)[j].text = c
             \/ \E j \in 1..Len(result.chapters) : result.chapters[j].title = c
    /\ \A j \in 1..Len(AllParagraphs(result.chapters)) :
         LET p == AllParagraphs(result.chapters)[j]
         IN  "isImage" \notin DOMAIN p => Len(p.text) >= 20
    /\ \A j \in 2..Len(result.chapters) :
         IsChapterTitle(result.chapters[j].title) /\ Len(result.chapters[j].title) < 100

\* the chapters of the PDF loop after a step, the running one last
ChaptersAfter == Append(chapters', currentChapter')

\* the step closed the running chapter and opened an empty "Chapter N"
ForcedSplit ==
  /\ chapterCount' = chapterCount + 1
  /\ Len(chapters') > 0
  /\ currentChapter'.paragraphs = <<>>
  /\ currentChapter'.title = <<"C", "h", "a", "p", "t", "e", "r", " ">> \o NumToString(chapterCount')

\* a chapter carries the text of a marker as its title
MarkerFired ==
  \E k \in 1..Len(ChaptersAfter) : ChaptersAfter[k].title # <<"C", "h", "a", "p", "t", "e", "r", " ">> \o NumToString(k)

\* the paragraphs the running chapter holds once the page is read
RunningParagraphs ==
  IF ForcedSplit THEN Len(chapters'[Len(chapters')].paragraphs)
  ELSE Len(currentChapter'.paragraphs)

\* C20: reading page i of a PDF forces a chapter boundary exactly when i is a
\* multiple of 10, no marker has started a chapter, and the running chapter
\* holds more than 5 paragraphs; this for every page, image pages included.
C20_ForcedSplit ==
  [][(pc = "pdfLoop" /\ i' = i + 1) =>
       (ForcedSplit <=> (i % 10 = 0 /\ ~MarkerFired /\ RunningParagraphs > 5))]_vars

\* C21: when every page of a PDF has been processed and no chapter was
\* closed, parsePdfFile does not fail: it returns a Book of exactly one
\* chapter, ch1, holding the paragraphs collected so far, possibly none.
C21_OneChapterAtLeast ==
  [][(pc = "pdfLoop" /\ i > Len(file.pages) /\ chapters = <<>>) =>
       /\ pc' = "returned" /\ thrown' = NoError
       /\ IsBook(result')
       /\ Len(result'.chapters) = 1
       /\ result'.chapters[1].id = <<"c", "h", "1">>
       /\ result'.chapters[1].paragraphs = currentChapter.paragraphs]_vars

\* a PDF Book of one chapter without paragraphs
C21_Witness ==
  /\ pc = "returned" /\ calls = <<"parsePdfFile">> /\ IsBook(result)
  /\ Len(file.pages) >= 1
  /\ Len(result.chapters) = 1
  /\ result.chapters[1].id = <<"c", "h", "1">>
  /\ result.chapters[1].paragraphs = <<>>

\* page i of the PDF fails: it cannot be loaded or read, or it is a page of
\* little text whose rendering throws
PageFails ==
  /\ pc = "pdfLoop" /\ i <= Len(file.pages)
  /\ \/ file.pages[i].load # "ok"
     \/ /\ Len(Trim(PdfPageText(file.pages[i]))) < 100
        /\ file.pages[i].render = "throws"

\* C22: a failure of one PDF page (loading it, extracting its text or
\* rendering it) skips that page only: nothing is thrown, the locals keep
\* what the other pages gave, and the loop goes on to the next page.
C22_PageFailureSkipped ==
  [][PageFails =>
       /\ pc' = "pdfLoop" /\ i' = i + 1
       /\ thrown' = NoError /\ result' = Null
       /\ chapters' = chapters /\ currentChapter' = currentChapter]_vars

\* the content document of the spine item the loop is at
CurrentDoc ==
  SpineDoc(file.zip, OpfDoc(file.zip), BasePathOf(RootfilePath(file.zip)),
           OpfDoc(file.zip).spine[i + 1])

\* the step of the spine loop that adds a chapter
AddsChapter ==
  /\ pc = "epubLoop" /\ calls = <<"parseEpubFile">>
  /\ Len(chapters') = Len(chapters) + 1

\* the cleaned texts of the title candidates of a document, in their order
TitleCandidates(doc) ==
  [j \in 1..5 |-> CleanMetadata(TitleElementText(doc, <<"h1", "h2", "h3", ".chapter-title", "title">>[j]))]

Qualifies(text) == text # <<>> /\ Len(text) < 200

\* the title by the rule: the first candidate that qualifies, <<>> when none does
TitleByRule(doc) ==
  LET c == TitleCandidates(doc)
  IN  IF \A j \in 1..5 : ~Qualifies(c[j]) THEN <<>>
      ELSE c[CHOOSE j \in 1..5 : Qualifies(c[j]) /\ \A m \in 1..(j - 1) : ~Qualifies(c[m])]

\* C23: the chapter of a spine document has as title the cleaned text of the
\* first of h1, h2, h3, .chapter-title, <title> that is non-empty and shorter
\* than 200 characters, and "Chapter N" when there is none; the text of the
\* title element is in no paragraph of the chapter.
C23_ChapterTitle ==
  [][AddsChapter =>
       LET ch == Last(chapters')
           title == TitleByRule(CurrentDoc)
       IN  /\ ch.title = IF title # <<>> THEN title
                         ELSE <<"C", "h", "a", "p", "t", "e", "r", " ">> \o NumToString(Len(chapters'))
           /\ title # <<>> =>
                \A k \in 1..Len(ch.paragraphs) : ~Includes(ch.paragraphs[k].text, title)]_vars

RECURSIVE WalkByRule(_, _, _)
\* The paragraphs the body walk owes to a forest, as texts and kinds: a
\* heading element gives a heading of its level unless its text is empty or
\* the chapter title, a <p> a plain paragraph when it has 20 characters, a
\* container with block descendants what its children give, a leaf container
\* of 20 characters one paragraph, a heading of level 4 when it is shorter
\* than 100 characters and does not end in one of marks.
WalkByRule(es, title, marks) ==
  IF es = <<>> THEN <<>>
  ELSE
    LET e == Head(es)
        text == Trim(TextContent(e))
        level == IF e.tag \notin HeadingTags THEN 0
                 ELSE CHOOSE n \in 1..6 : e.tag = <<"h1", "h2", "h3", "h4", "h5", "h6">>[n]
        first ==
          CASE e.tag = "img" -> <<>>
            [] level > 0 ->
                 IF text # <<>> /\ text # title
                 THEN <<[text |-> text, kind |-> "heading", level |-> level]>> ELSE <<>>
            [] e.tag = "p" ->
                 IF Len(text) >= 20 THEN <<[text |-> text, kind |-> "plain", level |-> 0]>> ELSE <<>>
            [] e.tag \in ContainerTags /\ ~HasBlockChildren(e) ->
                 IF Len(text) < 20 THEN <<>>
                 ELSE IF Len(text) < 100 /\ text[Len(text)] \notin marks
                 THEN <<[text |-> text, kind |-> "heading", level |-> 4]>>
                 ELSE <<[text |-> text, kind |-> "plain", level |-> 0]>>
            [] OTHER -> WalkByRule(e.kids, title, marks)
    IN  first \o WalkByRule(Tail(es), title, marks)

\* the paragraphs of the chapter just added that are no images, as texts and kinds
WalkedParagraphs ==
  LET NoImage(p) == p.kind # "image"
      ps == Last(chapters').paragraphs
  IN  SelectSeq([k \in 1..Len(ps) |-> TextAndKind(ps[k])], NoImage)

\* the body of the document the loop is at, its title element removed
WalkedBody == WithoutTitleElement(CurrentDoc).body

\* C24 (as claimed): when the walk of a spine document finds paragraphs they
\* are those of the rule, a leaf container being a heading if and only if it
\* is shorter than 100 characters and does not end in '.', '!' or '?'.
C24_BodyWalk ==
  [][(AddsChapter /\ WalkByRule(WalkedBody, Last(chapters').title, {".", "!", "?"}) # <<>>) =>
       WalkedParagraphs = WalkByRule(WalkedBody, Last(chapters').title, {".", "!", "?"})]_vars

\* C24 (amended): the same, a leaf container being a heading if and only if
\* it is shorter than 100 characters and does not end in '.', '!', '?', ','
\* or ';'.
C24_BodyWalkFiveMarks ==
  [][(AddsChapter /\ WalkByRule(WalkedBody, Last(chapters').title, {".", "!", "?", ",", ";"}) # <<>>) =>
       WalkedParagraphs = WalkByRule(WalkedBody, Last(chapters').title, {".", "!", "?", ",", ";"})]_vars

\* the chapter of the document whose leaf containers end in a comma, a
\* semicolon and a question mark: three plain paragraphs
C24_Witness ==
  /\ pc = "returned" /\ calls = <<"parseEpubFile">> /\ IsBook(result)
  /\ Len(result.chapters) = 1
  /\ result.chapters[1].title = <<"T", "h", "e", " ", "W", "a", "l", "k">>
  /\ Len(result.chapters[1].paragraphs) = 3
  /\ \A k \in 1..3 :
       /\ TextAndKind(result.chapters[1].paragraphs[k]).kind = "plain"
       /\ Last(result.chapters[1].paragraphs[k].text) = <<",", ";", "?">>[k]

\* the loop is at a spine document that is read, and the walk over its
\* headings, paragraphs and containers finds nothing
WalkFindsNothing ==
  /\ pc = "epubLoop" /\ calls = <<"parseEpubFile">>
  /\ i < Len(OpfDoc(file.zip).spine)
  /\ SpineSkip(file.zip, OpfDoc(file.zip), BasePathOf(RootfilePath(file.zip)),
               OpfDoc(file.zip).spine[i + 1]) = ""
  /\ WalkByRule(WalkedBody, TitleByRule(CurrentDoc), {".", "!", "?", ",", ";"}) = <<>>

\* the paragraphs the step of the spine loop adds that are no images
AddedText ==
  LET NoImage(p) == "isImage" \notin DOMAIN p
  IN  IF Len(chapters') = Len(chapters) THEN <<>>
      ELSE SelectSeq(Last(chapters').paragraphs, NoImage)

\* C25: when the walk of a spine document finds no paragraph the plain-text
\* fallback runs, whether or not the document has images: a text of 100
\* characters that ends a sentence gives paragraphs, each plain, made of the
\* text, of 30 characters at least, and each but the last of about 150
\* characters or more.
C25_Fallback ==
  [][(WalkFindsNothing /\ Len(HtmlToText(CurrentDoc)) >= 100
        /\ Last(HtmlToText(CurrentDoc)) \in {".", "!", "?"}) =>
       /\ AddedText # <<>>
       /\ \A k \in 1..Len(AddedText) :
            /\ TextAndKind(AddedText[k]).kind = "plain"
            /\ Includes(HtmlToText(CurrentDoc), AddedText[k].text)
            /\ Len(AddedText[k].text) >= 30
            /\ k < Len(AddedText) => Len(AddedText[k].text) >= 149]_vars

\* the loop is at a spine document that is read and has one <img>, with a src
OneImage ==
  /\ pc = "epubLoop" /\ calls = <<"parseEpubFile">>
  /\ i < Len(OpfDoc(file.zip).spine)
  /\ SpineSkip(file.zip, OpfDoc(file.zip), BasePathOf(RootfilePath(file.zip)),
               OpfDoc(file.zip).spine[i + 1]) = ""
  /\ Len(SelectSeq(Preorder(CurrentDoc.body), IsImg)) = 1
  /\ HasAttr(SelectSeq(Preorder(CurrentDoc.body), IsImg)[1], "src")

\* the directory of the document the loop is at
CurrentDocDir ==
  LET path == BasePathOf(RootfilePath(file.zip))
                \o ManifestGet(OpfDoc(file.zip), OpfDoc(file.zip).spine[i + 1].idref)
      last == CHOOSE k \in 0..Len(path) :
                /\ k > 0 => path[k] = "/"
                /\ \A m \in (k + 1)..Len(path) : path[m] # "/"
  IN  SubSeq(path, 1, last - 1)

\* the candidate paths of a src in the order of the rule: the src; the src
\* resolved against the directory of the document; the base path and the src;
\* the src; the archive entries that end with the file name; the src without
\* its leading slash; the src after each content-root name
CandidatesByRule(zip, basePath, docDir, src) ==
  LET relative == ~StartsWith(src, <<"h", "t", "t", "p">>) /\ ~StartsWith(src, <<"/">>)
      filename == Last(Split(src, "/"))
      EndsWithName(entry) == EndsWith(entry.name, filename)
      named == SelectSeq(zip, EndsWithName)
      roots == <<<<"O", "E", "B", "P", "S", "/">>, <<"O", "P", "S", "/">>, <<"E", "P", "U", "B", "/">>, <<"c", "o", "n", "t", "e", "n", "t", "/">>>>
  IN  <<src>>
        \o (IF StartsWith(src, <<".", ".", "/">>) THEN <<ResolvePath(docDir, src)>> ELSE <<>>)
        \o (IF relative THEN <<basePath \o src, src>> ELSE <<>>)
        \o (IF relative /\ filename # <<>> THEN [k \in 1..Len(named) |-> named[k].name] ELSE <<>>)
        \o (IF StartsWith(src, <<"/">>) THEN <<Tail(src)>> ELSE <<>>)
        \o Concat([k \in 1..4 |-> <<roots[k] \o src, roots[k] \o WithoutLeadingParent(src)>>])

\* the image paragraphs the step of the spine loop adds
AddedImages ==
  LET IsImage(p) == "isImage" \in DOMAIN p
  IN  IF Len(chapters') = Len(chapters) THEN <<>>
      ELSE SelectSeq(Last(chapters').paragraphs, IsImage)

\* C26: the payload of an image paragraph is that of the first candidate, in
\* the order of the rule, that the archive holds; when it holds none there
\* is no image paragraph; in both cases nothing is thrown and the loop goes
\* on to the next spine item.
C26_CandidateOrder ==
  [][OneImage =>
       LET src == SelectSeq(Preorder(CurrentDoc.body), IsImg)[1].src
           paths == CandidatesByRule(file.zip, BasePathOf(RootfilePath(file.zip)), CurrentDocDir, src)
           held == {k \in 1..Len(paths) : HasEntry(file.zip, CleanPath(paths[k]))}
       IN  /\ pc' = "epubLoop" /\ i' = i + 1 /\ thrown' = NoError
           /\ held = {} => AddedImages = <<>>
           /\ \A n \in 1..Len(AddedImages) :
                /\ held # {}
                /\ AddedImages[n].imageUrl =
                     [kind |-> "data",
                      path |-> CleanPath(paths[CHOOSE k \in held : \A m \in held : k <= m])]]_vars

\* the paragraphs of a chapter carry the ids p<from>, p<from + 1>, ... in order
NumberedFrom(ps, from) ==
  \A k \in 1..Len(ps) : ps[k].id = <<"p">> \o NumToString(from + k - 1)

\* C27 (as claimed): the ids of an EPUB Book run on through its chapters,
\* while in a TXT or PDF Book the ids of every chapter start again at p0.
C27_ResetPerChapter ==
  (Returned /\ IsBook(result)) =>
    IF calls = <<"parseEpubFile">>
    THEN NumberedFrom(AllParagraphs(result.chapters), 0)
    ELSE \A c \in 1..Len(result.chapters) : NumberedFrom(result.chapters[c].paragraphs, 0)

\* C27 (amended): in the Book of every extractor the ids run on through the
\* chapters: the k-th paragraph of the Book has the id p<k - 1>, and the
\* first paragraph of a later chapter never has the id p0.
C27_GlobalCounter ==
  (Returned /\ IsBook(result)) =>
    /\ NumberedFrom(AllParagraphs(result.chapters), 0)
    /\ \A c \in 2..Len(result.chapters) :
         result.chapters[c].paragraphs # <<>> => result.chapters[c].paragraphs[1].id # <<"p", "0">>

\* a TXT Book of two chapters: the second starts with p1
C27_Witness ==
  /\ pc = "returned" /\ calls = <<"parseTxtFile">> /\ IsBook(result)
  /\ Len(result.chapters) = 2
  /\ Len(result.chapters[1].paragraphs) = 1
  /\ result.chapters[2].paragraphs[1].id = <<"p", "1">>

\* C28: every canvas acquired to render a page of a PDF is released before
\* the next page is processed, whether rendering succeeded or failed, and
\* none is held when the parse ends.
C28_SurfaceReleased ==
  calls = <<"parsePdfFile">> => canvases = 0

\* the non-empty lines of a text, trimmed, in their order
SourceLines(text) ==
  LET NotBlank(line) == Trim(line) # <<>>
      kept == SelectSeq(Split(text, "\n"), NotBlank)
  IN  [k \in 1..Len(kept) |-> Trim(kept[k])]

RECURSIVE LinesOfChapters(_, _)
\* what the chapters of a TXT Book hold of the source, chapter by chapter:
\* the title of a chapter that a marker line started (every chapter but the
\* first), then the texts of its paragraphs
LinesOfChapters(chs, k) ==
  IF k > Len(chs) THEN <<>>
  ELSE (IF k = 1 THEN <<>> ELSE <<chs[k].title>>)
         \o [j \in 1..Len(chs[k].paragraphs) |-> chs[k].paragraphs[j].text]
         \o LinesOfChapters(chs, k + 1)

\* C29: the Book of parseTxtFile holds every non-empty line of the text
\* exactly once, as a paragraph or as the title of a chapter, in the order
\* of the source; no line is dropped or duplicated, a marker line that ends
\* the file included.
C29_Conservation ==
  (pc = "returned" /\ calls = <<"parseTxtFile">>) =>
    /\ IsBook(result)
    /\ LinesOfChapters(result.chapters, 1) = SourceLines(file.text)

\* C30: in every chapter of the EPUB extractor the image paragraphs come
\* before every heading and plain paragraph, wherever the images are in the
\* document.
C30_ImagesFirst ==
  calls = <<"parseEpubFile">> =>
    \A c \in 1..Len(chapters) :
      \A j, k \in 1..Len(chapters[c].paragraphs) :
        (j < k /\ "isImage" \in DOMAIN chapters[c].paragraphs[k])
          => "isImage" \in DOMAIN chapters[c].paragraphs[j]

\* the Book of a document whose <img> comes after its paragraph: the image
\* paragraph is the first of the chapter, the paragraph the second
C30_Witness ==
  /\ pc = "returned" /\ calls = <<"parseEpubFile">> /\ IsBook(result)
  /\ \E k \in 1..Len(file.zip) :
       /\ file.zip[k].data.kind = "html"
       /\ file.zip[k].data.doc.body[1].tag = "p"
       /\ Len(SelectSeq(Preorder(file.zip[k].data.doc.body), IsImg)) = 1
  /\ Len(result.chapters) = 1
  /\ Len(result.chapters[1].paragraphs) = 2
  /\ "isImage" \in DOMAIN result.chapters[1].paragraphs[1]
  /\ result.chapters[1].paragraphs[2].text = <<"A", " ", "p", "i", "c", "t", "u", "r", "e", " ", "f", "o", "l", "l", "o", "w", "s", " ", "t", "h", "i", "s", " ", "p", "a", "r", "a", "g", "r", "a", "p", "h", ".">>

====
